---- MODULE Spec2Model ----
(***************************************************************************)
(* Metadata-driven incremental storage engine of the cross-market ETL      *)
(* pipeline: per-symbol OHLCV tables, batched upsert, catalog              *)
(* (symbol_metadata) rescans and the update planner.                       *)
(*                                                                         *)
(* Strings that the code manipulates (symbols, timeframes, table names)    *)
(* are tuples of one-character strings.  Instants are integer ticks;       *)
(* DayLen ticks make one calendar day and one tick stands for the finest   *)
(* resolution of a JavaScript Date (a millisecond).                        *)
(***************************************************************************)
EXTENDS Integers, Sequences, FiniteSets, TLC

(* ------------------------------ bounds --------------------------------- *)
\* largest bar timestamp (in ticks) a CSV file can carry
MaxTs == 2
\* largest number of rows in one CSV file
MaxRecs == 3
\* number of import processes started in one behaviour
MaxRuns == 2
\* largest value of MAX_FAILED_BATCHES the configuration is drawn from
MaxCeiling == 2
\* ticks per calendar day
DayLen == 2
\* largest number of rows in a file of the failure-ceiling specification
MaxCeilingRecs == 7
\* largest "now" (in ticks) the planner is asked at
MaxClock == 9
\* days the bars of the coverage specification span
MaxDays == 10
\* the latest day a scheduled job starts on
MaxJobDay == 28
\* the most scheduled jobs of a behaviour
MaxJobs == 3
\* the most rows of a streamed CSV file
MaxStream == 3
\* the most calls of insertBatch followed statement by statement
MaxBatches == 2
\* the most rescans called on their own
MaxRescans == 2

(* -------------------------- program constants -------------------------- *)
\* triggers that arrive while a scheduled job is running
MaxSkips == 1
\* metadata files written in one behaviour
MaxWrites == 2
\* the end of the largest date range of a crypto fetch, in candles
MaxUntil == 3
\* largest value of crypto.maxRetries the configuration is drawn from
MaxRetries == 2
\* config.INSERT_BATCH_SIZE, scaled down: rows per database transaction
INSERT_BATCH_SIZE == 2
\* config.MAX_PRICE_VALUE
MAX_PRICE_VALUE == 10000000
\* config.MAX_FAILED_BATCHES
MAX_FAILED_BATCHES == 3

(* ------------------------------ values --------------------------------- *)
\* Columns and CSV fields hold integers; the values that are no number are
\* integers outside the range of the data.
\* SQL NULL / javascript null
Null == -99
\* javascript NaN
NaN == -77
\* a CSV field that starts with a number and goes on as text, as "1,234.50"
\* or "1abc": the number is 1
NumberThenText == -44
\* javascript Invalid Date
InvalidDate == -88
\* an empty CSV field
EmptyField == -66
\* a CSV field holding text that is no number and no date
BadText == -55
\* javascript null where the code expects a string
NoString == <<>>

Min(a, b) == IF a < b THEN a ELSE b

Timestamps == 1..MaxTs

\* javascript parseFloat on a CSV field: the number the field starts with,
\* or NaN when it starts with none
ParseFloat(s) ==
  IF s \in {EmptyField, BadText, Null} THEN NaN
  ELSE IF s = NumberThenText THEN 1
  ELSE s

\* javascript new Date(x): null is the epoch, an unparsable text is invalid
NewDate(x) ==
  IF x = Null THEN 0
  ELSE IF x \in {EmptyField, BadText, InvalidDate} THEN InvalidDate
  ELSE x

(* ------------------------------ strings -------------------------------- *)
UpperLetters ==
  <<"A","B","C","D","E","F","G","H","I","J","K","L","M",
    "N","O","P","Q","R","S","T","U","V","W","X","Y","Z">>
LowerLetters ==
  <<"a","b","c","d","e","f","g","h","i","j","k","l","m",
    "n","o","p","q","r","s","t","u","v","w","x","y","z">>

LowerChar(c) ==
  IF \E k \in 1..26 : UpperLetters[k] = c
  THEN LowerLetters[CHOOSE k \in 1..26 : UpperLetters[k] = c]
  ELSE c

\* String.prototype.toLowerCase / SQL lower()
toLowerCase(s) == [k \in 1..Len(s) |-> LowerChar(s[k])]

\* String.prototype.replace('/', ''): removes the FIRST '/' only
replaceFirstSlash(s) ==
  IF \E k \in 1..Len(s) : s[k] = "/"
  THEN LET p == CHOOSE k \in 1..Len(s) :
                  s[k] = "/" /\ \A j \in 1..(k - 1) : s[j] # "/"
       IN SubSeq(s, 1, p - 1) \o SubSeq(s, p + 1, Len(s))
  ELSE s

\* SQL replace(s, '/', ''): removes every '/'
replaceEverySlash(s) == SelectSeq(s, LAMBDA c : c # "/")

TradfiSuffix == <<"_","t","r","a","d","f","i","_","o","h","l","c","v">>
CryptoSuffix == <<"_","c","r","y","p","t","o","_","o","h","l","c","v">>

\* the name without the timeframe, as before the tables were split by
\* timeframe
getTableName_NoTimeframe(symbol, assetType, timeframe, exchange) ==
  IF assetType = "tradfi"
  THEN toLowerCase(symbol) \o TradfiSuffix
  ELSE toLowerCase(replaceFirstSlash(symbol)) \o <<"_">> \o toLowerCase(exchange)
         \o CryptoSuffix

\* the name with the symbol as it was passed
getTableName_KeepCase(symbol, assetType, timeframe, exchange) ==
  IF assetType = "tradfi"
  THEN symbol \o <<"_">> \o toLowerCase(timeframe) \o TradfiSuffix
  ELSE replaceFirstSlash(symbol) \o <<"_">> \o toLowerCase(timeframe)
         \o <<"_">> \o toLowerCase(exchange) \o CryptoSuffix

\* SymbolDatabaseManager.getTableName
getTableName(symbol, assetType, timeframe, exchange) ==
  IF assetType = "tradfi"
  THEN toLowerCase(symbol) \o <<"_">> \o toLowerCase(timeframe) \o TradfiSuffix
  ELSE toLowerCase(replaceFirstSlash(symbol)) \o <<"_">> \o toLowerCase(timeframe)
         \o <<"_">> \o toLowerCase(exchange) \o CryptoSuffix

(* ------------------------------ targets -------------------------------- *)
EURUSD == <<"E","U","R","U","S","D">>
BTCUSDT == <<"B","T","C","/","U","S","D","T">>
binance == <<"b","i","n","a","n","c","e">>
m1 == <<"m","1">>
h1 == <<"h","1">>

Target(sym, asset, tf, ex) ==
  [symbol |-> sym, assetType |-> asset, timeframe |-> tf, exchange |-> ex]

\* the target whose table carries data in the ingest specifications
DataTarget == Target(EURUSD, "tradfi", m1, NoString)
\* extractCryptoInfo always yields exchange 'binance'; the timeframes are those
\* of config.json
CatalogTargets ==
  { DataTarget, Target(EURUSD, "tradfi", h1, NoString),
    Target(BTCUSDT, "crypto", m1, binance),
    Target(BTCUSDT, "crypto", h1, binance) }

TableOf(t) == getTableName(t.symbol, t.assetType, t.timeframe, t.exchange)
TableNames == { TableOf(t) : t \in CatalogTargets }

(* ------------------------------- bars ---------------------------------- *)
\* one CSV row as csv-parser delivers it
CsvRow(ts, o, h, l, c, v) ==
  [timestamp |-> ts, open |-> o, high |-> h, low |-> l, close |-> c, volume |-> v]

\* valid rows: a bar without volume for every timestamp, and a second bar,
\* with other prices and a volume, for the first timestamp
ValidRows ==
  { CsvRow(ts, 1, 1, 1, 1, EmptyField) : ts \in Timestamps }
    \cup { CsvRow(1, 1, 2, 1, 2, 3) }
\* a row with a negative price
NegativeRow == CsvRow(1, 1, 1, -1, 1, EmptyField)
RowPool == ValidRows \cup {NegativeRow}

SeqsUpTo(S, n) == UNION { [1..k -> S] : k \in 0..n }

Days == <<"Sunday", "Monday", "Tuesday", "Wednesday", "Thursday", "Friday", "Saturday">>

\* Date.prototype.getDay: tick 0 is 1970-01-01, a Thursday
getDay(ts) == IF ts = InvalidDate THEN NaN ELSE ((ts \div DayLen) + 4) % 7

\* weekday labels in lower case
getDayOfWeek_Lower(ts) ==
  IF getDay(ts) = NaN THEN "undefined"
  ELSE <<"sunday", "monday", "tuesday", "wednesday", "thursday", "friday",
         "saturday">>[getDay(ts) + 1]

\* SymbolDatabaseManager.getDayOfWeek: days[NaN] is undefined
getDayOfWeek(ts) == IF getDay(ts) = NaN THEN "undefined" ELSE Days[getDay(ts) + 1]

\* SymbolDatabaseManager.isValidRecord (SKIP_INVALID_TIMESTAMPS is true)
isValidRecord(row) ==
  LET prices == { ParseFloat(row.open), ParseFloat(row.high),
                  ParseFloat(row.low), ParseFloat(row.close) }
  IN  IF \E p \in prices : p = NaN \/ p < 0 THEN FALSE
      ELSE IF \E p \in prices : p > MAX_PRICE_VALUE THEN FALSE
      ELSE IF NewDate(row.timestamp) = InvalidDate THEN FALSE
      ELSE TRUE

\* the record importCSVFile's data handler builds from a row
ToRecord(row) ==
  [timestamp |-> NewDate(row.timestamp),
   open |-> ParseFloat(row.open), high |-> ParseFloat(row.high),
   low |-> ParseFloat(row.low), close |-> ParseFloat(row.close),
   volume |-> IF row.volume = EmptyField THEN Null ELSE ParseFloat(row.volume),
   day_of_week |-> getDayOfWeek(NewDate(row.timestamp))]

\* importCSVFile's 'data' handler over the rows of a file, in order:
\* VALIDATE_NUMBERS is true; an invalid row is dropped only when
\* SKIP_MALFORMED_RECORDS is set, otherwise it falls through and is pushed
RECURSIVE ParseRows(_, _)
ParseRows(rows, skipMalformed) ==
  IF rows = <<>> THEN <<>>
  ELSE IF ~isValidRecord(Head(rows)) /\ skipMalformed
       THEN ParseRows(Tail(rows), skipMalformed)
       ELSE <<ToRecord(Head(rows))>> \o ParseRows(Tail(rows), skipMalformed)

(* --------------------------- OHLCV tables ------------------------------ *)
\* the row an INSERT without conflict stores
NewRow(rec, timeframe) ==
  [timestamp |-> rec.timestamp, open |-> rec.open, high |-> rec.high,
   low |-> rec.low, close |-> rec.close, volume |-> rec.volume,
   day_of_week |-> rec.day_of_week, timeframe |-> timeframe]

\* DO UPDATE SET of insertBatch's statement: every non-key column is replaced
DoUpdateSet(old, rec, timeframe) ==
  [old EXCEPT !.open = rec.open, !.high = rec.high, !.low = rec.low,
              !.close = rec.close, !.volume = rec.volume,
              !.day_of_week = rec.day_of_week, !.timeframe = timeframe]

\* the statement with ON CONFLICT (timestamp) DO NOTHING: the stored row stays
UpsertRow_DoNothing(rows, rec, timeframe) ==
  IF \E x \in rows : x.timestamp = rec.timestamp
  THEN rows
  ELSE rows \cup {NewRow(rec, timeframe)}

\* INSERT ... ON CONFLICT (timestamp) DO UPDATE on a table whose primary key
\* is timestamp (create_tradfi_ohlcv_table / create_crypto_ohlcv_table)
UpsertRow(rows, rec, timeframe) ==
  LET conflict == { x \in rows : x.timestamp = rec.timestamp }
  IN  IF conflict = {}
      THEN rows \cup {NewRow(rec, timeframe)}
      ELSE (rows \ conflict) \cup { DoUpdateSet(x, rec, timeframe) : x \in conflict }

\* a statement that reports every row as inserted
ReturnsInserted_Always(rows, rec) == TRUE

\* RETURNING (xmax = 0) AS inserted
ReturnsInserted(rows, rec) == ~ \E x \in rows : x.timestamp = rec.timestamp

\* a statement the database rejects whatever its state: timestamp is no
\* instant, or day_of_week (NOT NULL) is undefined
StatementRaises(rec) ==
  rec.timestamp = InvalidDate \/ rec.day_of_week = "undefined"

\* the statements of insertBatch's for loop, in order, in the transaction's
\* view of the table; failAt = k > 0 makes the k-th statement raise
RECURSIVE ExecStatements(_, _, _, _, _)
ExecStatements(view, batch, timeframe, k, failAt) ==
  IF k > Len(batch)
  THEN [view |-> view, inserted |-> 0, updated |-> 0, raisedAt |-> 0]
  ELSE IF k = failAt \/ StatementRaises(batch[k])
  THEN [view |-> view, inserted |-> 0, updated |-> 0, raisedAt |-> k]
  ELSE LET ins == ReturnsInserted(view, batch[k])
           rest == ExecStatements(UpsertRow(view, batch[k], timeframe),
                                  batch, timeframe, k + 1, failAt)
       IN  [rest EXCEPT !.inserted = @ + (IF ins THEN 1 ELSE 0),
                        !.updated = @ + (IF ins THEN 0 ELSE 1)]

\* a catch block that leaves the statements executed so far in place
Rollback_KeepsView(before, view) == view

\* COMMIT: the transaction's view becomes the table
Commit(before, view) == view
\* ROLLBACK: the table is what it was at BEGIN
Rollback(before, view) == before

\* SymbolDatabaseManager.insertBatch: BEGIN, the statements, then COMMIT and
\* return the counts, or ROLLBACK and rethrow
insertBatch(rows, batch, timeframe, failAt) ==
  LET tx == ExecStatements(rows, batch, timeframe, 1, failAt)
  IN  IF tx.raisedAt # 0
      THEN [rows |-> Rollback(rows, tx.view), threw |-> TRUE,
            inserted |-> 0, updated |-> 0, raisedAt |-> tx.raisedAt]
      ELSE [rows |-> Commit(rows, tx.view), threw |-> FALSE,
            inserted |-> tx.inserted, updated |-> tx.updated, raisedAt |-> 0]

(* ----------------------------- catalog --------------------------------- *)
WeekdayKeys ==
  {"monday", "tuesday", "wednesday", "thursday", "friday", "saturday", "sunday"}
KeyDay(k) ==
  CASE k = "monday" -> "Monday" [] k = "tuesday" -> "Tuesday"
    [] k = "wednesday" -> "Wednesday" [] k = "thursday" -> "Thursday"
    [] k = "friday" -> "Friday" [] k = "saturday" -> "Saturday"
    [] k = "sunday" -> "Sunday"

\* a symbol_metadata row as the INSERT of upsertSymbolMetadata creates it: the
\* statement names symbol, table_name, asset_type and exchange; every other
\* column takes its DEFAULT (timeframe 'm1', zero statistics, '{}')
NewEntry(symbol, tableName, assetType, exchange, now) ==
  [symbol |-> symbol, timeframe |-> m1, table_name |-> tableName,
   asset_type |-> assetType, exchange |-> exchange,
   total_records |-> 0, first_available_timestamp |-> Null,
   last_available_timestamp |-> Null, coverage_days |-> 0,
   volume_available |-> FALSE, data_format |-> "OHLC",
   day_of_week_distribution |-> [k \in WeekdayKeys |-> 0],
   can_update_from |-> Null,
   last_metadata_update |-> now, last_data_update |-> Null]

\* CONSTRAINT unique_symbol_timeframe_exchange: NULLs never conflict
UniqueViolation(others, e) ==
  \E o \in others :
    /\ o.symbol = e.symbol /\ o.timeframe = e.timeframe
    /\ o.asset_type = e.asset_type
    /\ o.exchange # NoString /\ e.exchange # NoString /\ o.exchange = e.exchange

\* a conflict clause that replaces the row by the row of the INSERT
OnConflictUpdate_Replace(e, symbol, assetType, exchange, now) ==
  NewEntry(symbol, e.table_name, assetType, exchange, now)

\* ON CONFLICT (table_name) DO UPDATE SET symbol, asset_type, exchange,
\* last_metadata_update = NOW(): the other columns keep their values
OnConflictUpdate(e, symbol, assetType, exchange, now) ==
  [e EXCEPT !.symbol = symbol, !.asset_type = assetType,
            !.exchange = exchange, !.last_metadata_update = now]

\* DatabaseMetadataManager.upsertSymbolMetadata: INSERT ... ON CONFLICT
\* (table_name) DO UPDATE; raises on a violation of the other constraint
upsertSymbolMetadata(cat, symbol, tableName, assetType, exchange, now) ==
  LET same == { e \in cat : e.table_name = tableName }
      others == cat \ same
      row == IF same = {}
             THEN NewEntry(symbol, tableName, assetType, exchange, now)
             ELSE OnConflictUpdate(CHOOSE e \in same : TRUE, symbol,
                                   assetType, exchange, now)
  IN  IF UniqueViolation(others, row)
      THEN [catalog |-> cat, threw |-> TRUE]
      ELSE [catalog |-> others \cup {row}, threw |-> FALSE]

SetMin(S) == CHOOSE x \in S : \A y \in S : x <= y
SetMax(S) == CHOOSE x \in S : \A y \in S : x >= y

\* the aggregate query of refresh_symbol_metadata over a table
MinTimestamp(rows) == IF rows = {} THEN Null ELSE SetMin({ r.timestamp : r \in rows })
MaxTimestamp(rows) == IF rows = {} THEN Null ELSE SetMax({ r.timestamp : r \in rows })
DowDistribution(rows) ==
  [k \in WeekdayKeys |-> Cardinality({ r \in rows : r.day_of_week = KeyDay(k) })]

\* COUNT(CASE WHEN volume IS NOT NULL AND volume > 0 THEN 1 END) > 0
HasVolume(rows) == \E r \in rows : r.volume # Null /\ r.volume > 0

\* SymbolMetadataManager.calculateDays in the place of the SQL expression:
\* the days of the interval rounded up
CoverageDays_Ceil(first, last) ==
  IF first # Null /\ last # Null THEN -((first - last) \div DayLen) ELSE 0

\* EXTRACT(DAY FROM last_ts - first_ts): the whole days of the interval
CoverageDays(first, last) ==
  IF first # Null /\ last # Null THEN (last - first) \div DayLen ELSE 0

\* a resume point one tick after the last stored bar
ResumePoint_AfterLast(last_ts) == IF last_ts = Null THEN Null ELSE last_ts + 1

\* the resume point refresh_symbol_metadata stores
ResumePoint(last_ts) == last_ts

\* a rescan that adds the rows it counts to the stored count
RecordCount_Accumulate(e, rows) == e.total_records + Cardinality(rows)

\* record_count: COUNT(*) of the table
RecordCount(e, rows) == Cardinality(rows)

\* refresh_symbol_metadata: full re-derivation of the statistics of the
\* entry whose table_name matches; no entry, no change (a NOTICE only)
refresh_symbol_metadata(cat, tableName, rows, now) ==
  { IF e.table_name # tableName THEN e
    ELSE [e EXCEPT
            !.total_records = RecordCount(e, rows),
            !.first_available_timestamp = MinTimestamp(rows),
            !.last_available_timestamp = MaxTimestamp(rows),
            !.coverage_days = CoverageDays(MinTimestamp(rows), MaxTimestamp(rows)),
            !.volume_available = HasVolume(rows),
            !.data_format = IF HasVolume(rows) THEN "OHLCV" ELSE "OHLC",
            !.day_of_week_distribution = DowDistribution(rows),
            !.can_update_from = ResumePoint(MaxTimestamp(rows)),
            !.last_metadata_update = now,
            !.last_data_update = now]
    : e \in cat }

\* SymbolMetadataManager.calculateDays: Math.ceil of the days between
calculateDays(startDate, endDate) ==
  IF startDate = Null \/ endDate = Null THEN 0
  ELSE -((startDate - endDate) \div DayLen)

\* no metadata file has been written for the table
NoMetaFile ==
  [generated |-> FALSE, total_records |-> 0, first_available_timestamp |-> Null,
   last_available_timestamp |-> Null, coverage_days |-> 0,
   volume_available |-> FALSE, data_format |-> "OHLC",
   day_of_week_distribution |-> [k \in WeekdayKeys |-> 0],
   can_update_from |-> Null]

\* SymbolMetadataManager.generateSymbolMetadata: the statistics written to the
\* metadata file of a table; records_with_volume counts volume IS NOT NULL
generateSymbolMetadata(rows) ==
  LET records_with_volume == Cardinality({ r \in rows : r.volume # Null })
  IN  [generated |-> TRUE,
       total_records |-> Cardinality(rows),
       first_available_timestamp |-> MinTimestamp(rows),
       last_available_timestamp |-> MaxTimestamp(rows),
       coverage_days |-> calculateDays(MinTimestamp(rows), MaxTimestamp(rows)),
       volume_available |-> records_with_volume > 0,
       data_format |-> IF records_with_volume > 0 THEN "OHLCV" ELSE "OHLC",
       day_of_week_distribution |-> DowDistribution(rows),
       can_update_from |-> MaxTimestamp(rows)]

\* SymbolMetadataManager.generateAllMetadata: one file per OHLCV table of the
\* database
generateAllMetadata(files, tableNames, tbls) ==
  [n \in DOMAIN files |->
     IF n \in tableNames THEN generateSymbolMetadata(tbls[n]) ELSE files[n]]

(* ------------------------------ state ---------------------------------- *)
VARIABLES
  config,         \* database_import settings the process runs with
  csvFiles,       \* CSV files in the data directory, in processing order
  existing,       \* names of the OHLCV tables that exist
  tables,         \* committed rows of every OHLCV table
  catalog,        \* rows of symbol_metadata
  pc,             \* position of the import process
  fileIdx,        \* importCSVFiles: index of the file being processed
  records,        \* importCSVFile: records parsed from the current file
  i,              \* insertRecordsBatched: offset of the next batch
  totalInserted,  \* insertRecordsBatched: rows inserted by committed batches
  totalUpdated,   \* insertRecordsBatched: rows updated by committed batches
  failedBatches,  \* insertRecordsBatched: batches that threw
  fileResult,     \* what importCSVFile's promise settled with
  importTotals,   \* importCSVFiles: totals over the files processed
  exitCode,       \* process.exit status of importToDatabase, Null while running
  runs,           \* import processes started so far
  imported,       \* history: the files the latest process was started on
  meta,           \* the JSON metadata file of each table
  lastIngested,   \* history: per table and timestamp, the bar of the latest
                  \* committed statement
  ceilingHit,     \* history: the process stopped a file at MAX_FAILED_BATCHES
  raisedAt,       \* history: the statement of the latest batch that raised, or 0
  rescanned,      \* history: the table whose rescan succeeded in the latest
                  \* step, NoString when the latest step was no such rescan
  firstRun,       \* history: outcome of the run before a re-import
  clock,          \* the planner's "now"
  plan,           \* the latest plan of planIncrementalUpdate
  updatePlan,     \* the latest result of generateUpdatePlan
  names,          \* the arguments and results of two calls of getTableName
  sched,          \* the WeeklyScheduler process: its step, isRunning, the
                  \* date range of config.json
  stream,         \* the streaming importCSVFile: the rows read, the arrays
                  \* records has referred to, the flushes in flight
  conn,           \* insertBatch statement by statement: the pooled
                  \* connection, the statements sent, the transaction
  validated,      \* the row and the answer of a call of isValidRecord
  metaDir,        \* metadata/symbols: the metadata files, and the answer
                  \* of a call of checkSymbolNeedsUpdate
  fetch           \* fetchHistoricalData: the range, currentTime, batchCount,
                  \* the candles kept

vars ==
  <<config, csvFiles, existing, tables, catalog, pc, fileIdx, records, i,
    totalInserted, totalUpdated, failedBatches, fileResult, importTotals,
    exitCode, runs, imported, meta, lastIngested, ceilingHit, raisedAt, rescanned,
    firstRun, clock, plan, updatePlan, names,
    sched, stream, conn,
                 validated,
                 metaDir,
                 fetch>>

dbVars == <<existing, tables, catalog, lastIngested>>
procVars ==
  <<csvFiles, pc, fileIdx, fileResult, importTotals, exitCode, runs, imported,
    meta,
    ceilingHit, rescanned, firstRun>>
loopVars == <<records, i, totalInserted, totalUpdated, failedBatches, raisedAt>>
toolVars == <<names, sched, stream, conn,
                 validated,
                 metaDir,
                 fetch>>
planVars == <<clock, plan, updatePlan, toolVars>>

\* the settings the claims range over; VALIDATE_NUMBERS and
\* SKIP_INVALID_TIMESTAMPS are true
\* (MAX_FAILED_BATCHES is read in lenient mode only: one value with strict)
Configs ==
  { c \in [SKIP_MALFORMED_RECORDS : BOOLEAN,
           CONTINUE_ON_BATCH_FAILURE : BOOLEAN,
           MAX_FAILED_BATCHES : 1..MaxCeiling] :
      c.CONTINUE_ON_BATCH_FAILURE \/ c.MAX_FAILED_BATCHES = MaxCeiling }

CsvFile(target, rows) == [target |-> target, rows |-> rows]

\* one CSV file for the data target, any rows
DataFiles == { <<CsvFile(DataTarget, r)>> : r \in SeqsUpTo(RowPool, MaxRecs) }

NoResult == [state |-> "pending", inserted |-> Null, updated |-> Null]
NoRun == [ran |-> FALSE, inserted |-> 0, updated |-> 0, failedBatches |-> 0,
          exitCode |-> Null]
NoPlan == [symbol |-> NoString, updateType |-> "unplanned",
           reason |-> "unplanned", fromDate |-> Null, toDate |-> Null,
           gapDays |-> Null]
NoNames == [called |-> FALSE]
NoRange == [from |-> Null, to |-> Null]
NoSched == [step |-> "stopped", isRunning |-> FALSE, jobs |-> 0,
            startedAtRuns |-> 0, dateRange |-> NoRange, skipped |-> 0]
NoValidation == [called |-> FALSE]
NoCheck == [called |-> FALSE]
NoMetaDir == [files |-> {}, written |-> {}, writes |-> 0, check |-> NoCheck]
NoFetch == [state |-> "idle", until |-> 0, maxRetries |-> 0, currentTime |-> 0,
            batchCount |-> 0, allCandles |-> {}, retries |-> 0]
NoStream == [state |-> "closed", rows |-> <<>>, read |-> 0,
             arrays |-> << <<>> >>, cur |-> 1, flushes |-> <<>>,
             handed |-> [k \in 1..MaxStream |-> 0],
             totalInserted |-> 0, totalUpdated |-> 0]
NoConn == [step |-> "idle", checkedOut |-> 0, releases |-> 0, log |-> <<>>,
           inTx |-> FALSE, batch |-> <<>>, k |-> 0, view |-> {},
           inserted |-> 0, updated |-> 0, batches |-> 0, outcome |-> "none"]
NoUpdatePlan == [totalSymbols |-> Null, fullUpdates |-> Null,
                 incrementalUpdates |-> Null, upToDate |-> Null,
                 symbols |-> <<>>]

\* no import has run and the database is empty
InitIdle ==
  /\ csvFiles = <<>>
  /\ existing = {}
  /\ tables = [n \in TableNames |-> {}]
  /\ catalog = {}
  /\ pc = "idle"
  /\ fileIdx = 0
  /\ records = <<>>
  /\ i = 0
  /\ totalInserted = 0
  /\ totalUpdated = 0
  /\ failedBatches = 0
  /\ fileResult = NoResult
  /\ importTotals = [inserted |-> 0, updated |-> 0, files |-> 0]
  /\ exitCode = Null
  /\ runs = 0
  /\ imported = <<>>
  /\ meta = [n \in TableNames |-> NoMetaFile]
  /\ lastIngested = [n \in TableNames |-> [ts \in {} |-> Null]]
  /\ ceilingHit = FALSE
  /\ raisedAt = 0
  /\ rescanned = NoString
  /\ firstRun = NoRun
  /\ clock = 0
  /\ plan = NoPlan
  /\ updatePlan = NoUpdatePlan
  /\ names = NoNames
  /\ sched = NoSched
  /\ stream = NoStream
  /\ conn = NoConn
  /\ validated = NoValidation
  /\ metaDir = NoMetaDir
  /\ fetch = NoFetch

Init ==
  /\ config \in Configs
  /\ InitIdle

(* ------------------------- the import process -------------------------- *)
CurrentTarget == csvFiles[fileIdx].target
CurrentTable == TableOf(CurrentTarget)

\* importToDatabase is started on the files of the data directory;
\* remember = TRUE keeps the outcome of the run before it
StartProcess(files, remember) ==
  /\ pc \in {"idle", "exited"}
  /\ runs < MaxRuns
  /\ runs' = runs + 1
  /\ csvFiles' = files
  /\ imported' = files
  /\ firstRun' = IF remember
                 THEN [ran |-> TRUE, inserted |-> importTotals.inserted,
                       updated |-> importTotals.updated,
                       failedBatches |-> failedBatches, exitCode |-> exitCode]
                 ELSE NoRun
  /\ fileIdx' = 1
  /\ pc' = IF files = <<>> THEN "post" ELSE "file"
  /\ records' = <<>>
  /\ i' = 0
  /\ totalInserted' = 0
  /\ totalUpdated' = 0
  /\ failedBatches' = 0
  /\ fileResult' = NoResult
  /\ importTotals' = [inserted |-> 0, updated |-> 0, files |-> 0]
  /\ exitCode' = Null
  /\ ceilingHit' = FALSE
  /\ raisedAt' = 0
  /\ rescanned' = NoString
  /\ UNCHANGED <<config, dbVars, meta, planVars>>

\* an error that reaches importToDatabase's catch: process.exit(1)
Exit1 == pc' = "exited" /\ exitCode' = 1

\* an existence check that answers true when its query fails
tableExists_TrueOnError(name, exist, queryFails) ==
  queryFails \/ name \in exist

\* tableExists: the answer of SELECT table_exists($1), false when the query
\* fails
tableExists(name, exist, queryFails) ==
  IF queryFails THEN FALSE ELSE name \in exist

\* importCSVFiles: tableExists, and createSymbolTable when it answers false
\* (also when the existence query itself fails).  createSymbolTable runs the
\* SQL create function and then upsertSymbolMetadata; either may raise, and
\* the error propagates to importToDatabase.
EnsureTable ==
  /\ pc = "file"
  /\ \E queryFails \in BOOLEAN, outcome \in {"ok", "create_raises", "metadata_raises"} :
       LET t == CurrentTarget
           name == CurrentTable
           up == upsertSymbolMetadata(catalog, t.symbol, name, t.assetType,
                                      t.exchange, clock)
       IN  IF tableExists(name, existing, queryFails)
           THEN /\ outcome = "ok"
                /\ pc' = "parse"
                /\ UNCHANGED <<existing, catalog, exitCode>>
           ELSE IF outcome = "create_raises"
           THEN /\ Exit1
                /\ UNCHANGED <<existing, catalog>>
           ELSE /\ existing' = existing \cup {name}
                /\ IF up.threw \/ outcome = "metadata_raises"
                   THEN Exit1 /\ UNCHANGED catalog
                   ELSE /\ catalog' = up.catalog
                        /\ pc' = "parse"
                        /\ UNCHANGED exitCode
  /\ rescanned' = NoString
  /\ UNCHANGED <<config, csvFiles, tables, lastIngested, fileIdx, loopVars,
                 fileResult, importTotals, runs, imported, meta, ceilingHit,
                 firstRun, planVars>>

\* importCSVFile: the stream's data events, then the start of the end
\* handler, which calls insertRecordsBatched on all the records
ParseCSV ==
  /\ pc = "parse"
  /\ records' = ParseRows(csvFiles[fileIdx].rows, config.SKIP_MALFORMED_RECORDS)
  /\ i' = 0
  /\ totalInserted' = 0
  /\ totalUpdated' = 0
  /\ failedBatches' = 0
  /\ raisedAt' = 0
  /\ fileResult' = NoResult
  /\ pc' = IF records' = <<>> THEN "mark" ELSE "insert"
  /\ rescanned' = NoString
  /\ UNCHANGED <<config, csvFiles, dbVars, fileIdx, importTotals, exitCode,
                 runs, imported, meta, ceilingHit, firstRun, planVars>>

\* the bars of a committed batch, in statement order, recorded per timestamp
RECURSIVE Ingested(_, _)
Ingested(last, batch) ==
  IF batch = <<>> THEN last
  ELSE Ingested([ts \in (DOMAIN last) \cup {Head(batch).timestamp} |->
                   IF ts = Head(batch).timestamp THEN Head(batch) ELSE last[ts]],
                Tail(batch))

\* a catch that never rethrows
ContinueOnFailure_Always(cfg) == TRUE

\* insertRecordsBatched's catch: if (config.CONTINUE_ON_BATCH_FAILURE)
ContinueOnFailure(cfg) == cfg.CONTINUE_ON_BATCH_FAILURE

\* a ceiling test that lets one more batch fail
TooManyFailed_OffByOne(failed, cfg) == failed > cfg.MAX_FAILED_BATCHES

\* insertRecordsBatched's catch: failedBatches >= config.MAX_FAILED_BATCHES
TooManyFailed(failed, cfg) == failed >= cfg.MAX_FAILED_BATCHES

\* one iteration of insertRecordsBatched's for loop: slice the batch, call
\* insertBatch, add its counts; in the catch count the failure and continue,
\* break at MAX_FAILED_BATCHES, or rethrow when CONTINUE_ON_BATCH_FAILURE is off
InsertNextBatch ==
  /\ pc = "insert"
  /\ i < Len(records)
  /\ LET name == CurrentTable
         batch == SubSeq(records, i + 1, Min(i + INSERT_BATCH_SIZE, Len(records)))
     IN  \E failAt \in 0..Len(batch) :
           LET res == insertBatch(tables[name], batch, CurrentTarget.timeframe, failAt)
           IN  /\ tables' = [tables EXCEPT ![name] = res.rows]
               /\ raisedAt' = res.raisedAt
               /\ IF ~res.threw
                  THEN /\ totalInserted' = totalInserted + res.inserted
                       /\ totalUpdated' = totalUpdated + res.updated
                       /\ lastIngested' = [lastIngested EXCEPT
                                             ![name] = Ingested(@, batch)]
                       /\ i' = i + INSERT_BATCH_SIZE
                       /\ pc' = IF i' < Len(records) THEN "insert" ELSE "mark"
                       /\ UNCHANGED <<failedBatches, ceilingHit, fileResult, exitCode>>
                  ELSE /\ failedBatches' = failedBatches + 1
                       /\ UNCHANGED <<totalInserted, totalUpdated, lastIngested>>
                       /\ IF ContinueOnFailure(config)
                          THEN IF TooManyFailed(failedBatches', config)
                               THEN /\ pc' = "mark"
                                    /\ ceilingHit' = TRUE
                                    /\ UNCHANGED <<i, fileResult, exitCode>>
                               ELSE /\ i' = i + INSERT_BATCH_SIZE
                                    /\ pc' = IF i' < Len(records) THEN "insert" ELSE "mark"
                                    /\ UNCHANGED <<ceilingHit, fileResult, exitCode>>
                          ELSE /\ fileResult' = [state |-> "rejected",
                                                 inserted |-> Null, updated |-> Null]
                               /\ Exit1
                               /\ UNCHANGED <<i, ceilingHit>>
  /\ rescanned' = NoString
  /\ UNCHANGED <<config, csvFiles, existing, catalog, fileIdx, records,
                 importTotals, runs, imported, meta, firstRun, planVars>>

\* DatabaseMetadataManager.markSymbolUpdated: refreshMetadata, whose error is
\* logged and swallowed
markSymbolUpdated(cat, tableName, rows, refreshRaises, now) ==
  IF refreshRaises THEN cat ELSE refresh_symbol_metadata(cat, tableName, rows, now)

\* the rest of importCSVFile's end handler once insertRecordsBatched has
\* returned: markSymbolUpdated, then resolve with the counts; importCSVFiles
\* adds them to its totals and goes to the next file
MarkAndResolve ==
  /\ pc = "mark"
  /\ \E refreshRaises \in BOOLEAN :
       /\ catalog' = markSymbolUpdated(catalog, CurrentTable, tables[CurrentTable],
                                       refreshRaises, clock)
       /\ rescanned' = IF refreshRaises THEN NoString ELSE CurrentTable
  /\ fileResult' = [state |-> "resolved", inserted |-> totalInserted,
                    updated |-> totalUpdated]
  /\ importTotals' = [inserted |-> importTotals.inserted + totalInserted,
                      updated |-> importTotals.updated + totalUpdated,
                      files |-> importTotals.files + 1]
  /\ fileIdx' = fileIdx + 1
  /\ pc' = IF fileIdx < Len(csvFiles) THEN "file" ELSE "post"
  /\ UNCHANGED <<config, csvFiles, existing, tables, lastIngested, loopVars,
                 exitCode, runs, imported, meta, ceilingHit, firstRun,
                 planVars>>

\* cleanupCSVFiles: every CSV file of the data directories is unlinked
cleanupCSVFiles(files) == <<>>

\* the end of importAllCSVFiles (generateAllMetadata writes the metadata
\* files) and importToDatabase after it has returned: the statistics are
\* printed, cleanupCSVFiles runs and the process exits with status 0
FinishImport ==
  /\ pc = "post"
  /\ meta' = generateAllMetadata(meta, existing, tables)
  /\ csvFiles' = cleanupCSVFiles(csvFiles)
  /\ exitCode' = 0
  /\ pc' = "exited"
  /\ rescanned' = NoString
  /\ UNCHANGED <<config, dbVars, fileIdx, loopVars, fileResult, importTotals,
                 runs, imported, ceilingHit, firstRun, planVars>>

Pipeline ==
  \/ EnsureTable
  \/ ParseCSV
  \/ InsertNextBatch
  \/ MarkAndResolve
  \/ FinishImport

\* the fetch stage has written a file for the data target; the import starts
FetchAndImport == \E files \in DataFiles : StartProcess(files, FALSE)

Next == FetchAndImport \/ Pipeline

Spec == Init /\ [][Next]_vars

\* re-import: the fetch stage has written the same file again
FirstImport == runs = 0 /\ \E files \in DataFiles : StartProcess(files, FALSE)
Reimport == runs > 0 /\ StartProcess(imported, TRUE)

NextRerun == FirstImport \/ Reimport \/ Pipeline

SpecRerun == Init /\ [][NextRerun]_vars

\* the failure ceiling as configured: lenient mode or strict mode, any
\* ceiling up to the configured MAX_FAILED_BATCHES, files long enough to hold
\* more batches than the ceiling
CeilingConfigs ==
  { c \in [SKIP_MALFORMED_RECORDS : {TRUE},
           CONTINUE_ON_BATCH_FAILURE : BOOLEAN,
           MAX_FAILED_BATCHES : 1..MAX_FAILED_BATCHES] :
      c.CONTINUE_ON_BATCH_FAILURE \/ c.MAX_FAILED_BATCHES = MAX_FAILED_BATCHES }

CeilingFiles ==
  { <<CsvFile(DataTarget, r)>> :
      r \in SeqsUpTo({ CsvRow(ts, 1, 1, 1, 1, EmptyField) : ts \in 1..2 },
                     MaxCeilingRecs) }

InitCeiling == config \in CeilingConfigs /\ InitIdle

CeilingImport == runs = 0 /\ \E files \in CeilingFiles : StartProcess(files, FALSE)

NextCeiling == CeilingImport \/ Pipeline

SpecCeiling == InitCeiling /\ [][NextCeiling]_vars

(* ---------------------------- table names ------------------------------ *)
eurusd == <<"e","u","r","u","s","d">>
btcusdt == <<"b","t","c","u","s","d","t">>
ETHUSDT == <<"E","T","H","/","U","S","D","T">>
kraken == <<"k","r","a","k","e","n">>

\* the targets of a symbol set as config.json lists it: tradfi symbols without
\* exchange, crypto pairs on the configured exchanges, the active timeframes
RealisticTargets ==
  { Target(sym, "tradfi", tf, NoString) :
      sym \in {eurusd, btcusdt}, tf \in {m1, h1} }
    \cup { Target(sym, "crypto", tf, ex) :
             sym \in {BTCUSDT, ETHUSDT}, tf \in {m1, h1},
             ex \in {binance, kraken} }

\* the same with other spellings of a symbol
NameInputs ==
  RealisticTargets
    \cup { Target(EURUSD, "tradfi", tf, NoString) : tf \in {m1, h1} }
    \cup { Target(toLowerCase(BTCUSDT), "crypto", m1, binance) }

\* getTableName is called on two targets
GetTableNames ==
  /\ ~names.called
  /\ \E a \in NameInputs, b \in NameInputs :
       names' = [called |-> TRUE, first |-> a, second |-> b,
                 firstName |-> getTableName(a.symbol, a.assetType,
                                            a.timeframe, a.exchange),
                 secondName |-> getTableName(b.symbol, b.assetType,
                                             b.timeframe, b.exchange)]
  /\ UNCHANGED <<config, dbVars, procVars, loopVars, clock, plan, updatePlan,
                 sched, stream, conn,
                 validated,
                 metaDir,
                 fetch>>

SpecNaming == Init /\ [][GetTableNames]_vars

(* ----------------------- the names of created tables ------------------- *)
\* create_tradfi_ohlcv_table / create_crypto_ohlcv_table: the name of the
\* table the function creates
create_ohlcv_table(symbol, assetType, timeframe, exchange) ==
  IF assetType = "tradfi"
  THEN toLowerCase(symbol) \o <<"_">> \o toLowerCase(timeframe) \o TradfiSuffix
  ELSE replaceEverySlash(toLowerCase(symbol)) \o <<"_">> \o toLowerCase(timeframe)
         \o <<"_">> \o toLowerCase(exchange) \o CryptoSuffix

\* a pair of a pair, and spellings in capitals
BTCUSDTPERP == <<"B","T","C","/","U","S","D","T","/","P">>
M1 == <<"M","1">>
Binance == <<"B","i","n","a","n","c","e">>

CreateInputs ==
  { Target(sym, "tradfi", tf, NoString) :
      sym \in {EURUSD, eurusd, BTCUSDT}, tf \in {m1, h1, M1} }
    \cup { Target(sym, "crypto", tf, ex) :
             sym \in {BTCUSDT, ETHUSDT, btcusdt, BTCUSDTPERP},
             tf \in {m1, h1, M1}, ex \in {binance, kraken, Binance} }

\* createSymbolTable is called on a target: the create function of the
\* database names the table, and getTableName names it for the catalog and
\* for every later statement
CreateSymbolTable ==
  /\ ~names.called
  /\ \E a \in CreateInputs :
       names' = [called |-> TRUE, first |-> a, second |-> a,
                 firstName |-> create_ohlcv_table(a.symbol, a.assetType,
                                                  a.timeframe, a.exchange),
                 secondName |-> getTableName(a.symbol, a.assetType,
                                             a.timeframe, a.exchange)]
  /\ UNCHANGED <<config, dbVars, procVars, loopVars, clock, plan, updatePlan,
                 sched, stream, conn, validated,
                 metaDir,
                 fetch>>

SpecCreate == Init /\ [][CreateSymbolTable]_vars

(* ----------------------- statistics of a rescan ------------------------ *)
\* bars on every tick of MaxDays consecutive days, and a row whose timestamp
\* field is no date
CoverageTimestamps == 0..(MaxDays * DayLen - 1)
BadTimestampRow == CsvRow(BadText, 1, 1, 1, 1, EmptyField)

CoverageFiles ==
  { <<CsvFile(DataTarget, r)>> :
      r \in SeqsUpTo({ CsvRow(ts, 1, 1, 1, 1, EmptyField) :
                         ts \in CoverageTimestamps } \cup {BadTimestampRow}, 2) }

InitCoverage ==
  /\ config \in { c \in Configs : c.MAX_FAILED_BATCHES = MaxCeiling }
  /\ InitIdle

CoverageImport ==
  runs = 0 /\ \E files \in CoverageFiles : StartProcess(files, FALSE)

NextCoverage == CoverageImport \/ Pipeline

SpecCoverage == InitCoverage /\ [][NextCoverage]_vars

(* --------------------------- the update planner ------------------------ *)
\* DatabaseMetadataManager.getSymbolMetadata: the rows the SELECT returns; the
\* caller takes rows[0], any of them since the query has no ORDER BY. A null
\* exchange parameter disables the exchange filter, and a NULL exchange
\* column never equals a parameter.
getSymbolMetadata(cat, symbol, assetType, exchange) ==
  { e \in cat :
      /\ e.symbol = symbol
      /\ e.asset_type = assetType
      /\ \/ exchange = NoString
         \/ (e.exchange # NoString /\ e.exchange = exchange) }

\* getEndOfPreviousDay: the last instant of the day before now
getEndOfPreviousDay(now) == (now \div DayLen) * DayLen - 1

\* Math.floor in the place of Math.ceil
CeilDiv_Floor(a, b) == a \div b

\* Math.ceil(a / b) for b > 0
CeilDiv(a, b) == -((-a) \div b)

\* planIncrementalUpdate: the plans the call can return at time now, one per
\* row getSymbolMetadata can put first
planIncrementalUpdate(cat, symbol, assetType, exchange, now) ==
  LET found == getSymbolMetadata(cat, symbol, assetType, exchange)
      endDate == getEndOfPreviousDay(now)
      planFor(metadata) ==
        LET lastUpdate == NewDate(metadata.can_update_from)
        IN  IF lastUpdate >= endDate
            THEN [symbol |-> symbol, updateType |-> "none",
                  reason |-> "up_to_date", fromDate |-> Null, toDate |-> Null,
                  gapDays |-> Null]
            ELSE [symbol |-> symbol, updateType |-> "incremental",
                  reason |-> "gap_detected", fromDate |-> lastUpdate,
                  toDate |-> endDate,
                  gapDays |-> CeilDiv(endDate - lastUpdate, DayLen)]
  IN  IF found = {}
      THEN { [symbol |-> symbol, updateType |-> "full", reason |-> "no_metadata",
              fromDate |-> Null, toDate |-> endDate, gapDays |-> Null] }
      ELSE { planFor(metadata) : metadata \in found }

\* the data directories of the catalog specification: one file of any
\* target, holding at most one bar
CatalogFiles ==
  { <<CsvFile(t, r)>> :
      t \in CatalogTargets,
      r \in SeqsUpTo({ CsvRow(ts, 1, 1, 1, 1, EmptyField) : ts \in Timestamps },
                     1) }

DefaultConfig ==
  [SKIP_MALFORMED_RECORDS |-> TRUE, CONTINUE_ON_BATCH_FAILURE |-> TRUE,
   MAX_FAILED_BATCHES |-> MaxCeiling]

InitCatalog == config = DefaultConfig /\ InitIdle

\* the imports come first, the planner call ends the behaviour
CatalogImport ==
  /\ plan = NoPlan /\ updatePlan = NoUpdatePlan
  /\ \E files \in CatalogFiles : StartProcess(files, FALSE)

\* the times of a planner call: any instant after the first day of the epoch
Clocks == DayLen..MaxClock

\* the planner is asked at time now for the plan of one data target, no
\* import running
PlanUpdate ==
  /\ pc \in {"idle", "exited"}
  /\ plan = NoPlan /\ updatePlan = NoUpdatePlan
  /\ \E t \in CatalogTargets, now \in Clocks :
       /\ clock' = now
       /\ plan' \in planIncrementalUpdate(catalog, t.symbol, t.assetType,
                                          t.exchange, now)
  /\ UNCHANGED <<config, dbVars, procVars, loopVars, updatePlan, toolVars>>

\* the byte order of the characters of a table name
Collation ==
  <<"0","1","2","3","4","5","6","7","8","9","_">> \o LowerLetters
CharCode(c) == CHOOSE k \in 1..Len(Collation) : Collation[k] = c

\* a sorts before b
LessString(a, b) ==
  \/ /\ Len(a) < Len(b)
     /\ \A j \in 1..Len(a) : a[j] = b[j]
  \/ \E k \in 1..Min(Len(a), Len(b)) :
       /\ CharCode(a[k]) < CharCode(b[k])
       /\ \A j \in 1..(k - 1) : a[j] = b[j]

\* get_symbols_needing_update: every entry, ORDER BY table_name
RECURSIVE getSymbolsNeedingUpdate(_)
getSymbolsNeedingUpdate(cat) ==
  IF cat = {} THEN <<>>
  ELSE LET first == CHOOSE e \in cat :
                      \A o \in cat \ {e} : LessString(e.table_name, o.table_name)
       IN  <<first>> \o getSymbolsNeedingUpdate(cat \ {first})

\* the loop of generateUpdatePlan: the plan lists it can build for the rows
RECURSIVE PlanList(_, _, _)
PlanList(cat, rows, now) ==
  IF rows = <<>> THEN { <<>> }
  ELSE { <<p>> \o rest :
           p \in planIncrementalUpdate(cat, Head(rows).symbol,
                                       Head(rows).asset_type,
                                       Head(rows).exchange, now),
           rest \in PlanList(cat, Tail(rows), now) }

CountKind(plans, kind) ==
  Cardinality({ k \in 1..Len(plans) : plans[k].updateType = kind })

\* generateUpdatePlan: the results the call can return at time now
generateUpdatePlan(cat, now) ==
  { [totalSymbols |-> Len(plans),
     fullUpdates |-> CountKind(plans, "full"),
     incrementalUpdates |-> CountKind(plans, "incremental"),
     upToDate |-> CountKind(plans, "none"),
     symbols |-> plans] :
      plans \in PlanList(cat, getSymbolsNeedingUpdate(cat), now) }

\* the scheduled updater asks at time now for the plan of the whole catalog,
\* no import running
GenerateUpdatePlan ==
  /\ pc \in {"idle", "exited"}
  /\ plan = NoPlan /\ updatePlan = NoUpdatePlan
  /\ \E now \in Clocks :
       /\ clock' = now
       /\ updatePlan' \in generateUpdatePlan(catalog, now)
  /\ UNCHANGED <<config, dbVars, procVars, loopVars, plan, toolVars>>

NextCatalog == CatalogImport \/ Pipeline \/ PlanUpdate \/ GenerateUpdatePlan

SpecCatalog == InitCatalog /\ [][NextCatalog]_vars

(* -------------------------- the weekly scheduler ----------------------- *)
\* Date.prototype.getUTCDay: 0 = Sunday, 5 = Friday
getUTCDay(ts) == ((ts \div DayLen) + 4) % 7

\* the weekday of a calendar day
WeekdayOfDay(day) == (day + 4) % 7

\* a count of days back that is 0 on a Friday
daysToLastFriday_Today(dayOfWeek) == (dayOfWeek + 2) % 7

\* calculateDateRange: dayOfWeek <= 5 ? dayOfWeek + 2 : dayOfWeek - 5
daysToLastFriday(dayOfWeek) ==
  IF dayOfWeek <= 5 THEN dayOfWeek + 2 ELSE dayOfWeek - 5

\* calculateDateRange at time now: the calendar days formatDate prints
calculateDateRange(now) ==
  LET lastFriday == (now \div DayLen) - daysToLastFriday(getUTCDay(now))
      startDate == lastFriday - 14
  IN  [from |-> startDate, to |-> lastFriday]

\* the instants a job can start at: cron on Sunday, or --test on any day
JobClocks ==
  { day * DayLen + k : day \in (MaxJobDay - 7)..MaxJobDay, k \in 0..(DayLen - 1) }

\* the job has reached runETLPipeline and importToDatabase is not yet called
InFetch == sched.step = "etl" /\ runs = sched.startedAtRuns
\* the job has called importToDatabase
InImport == sched.step = "etl" /\ runs > sched.startedAtRuns
\* importToDatabase has called process.exit inside the scheduler's process
ProcessExited == InImport /\ pc = "exited"
SchedulerAlive == sched.step # "stopped" /\ ~ProcessExited

\* main: a WeeklyScheduler is constructed and started, at first or when the
\* worker is started again after its process has exited
SchedulerStart ==
  /\ sched.step = "stopped" \/ ProcessExited
  /\ sched' = [sched EXCEPT !.step = "waiting", !.isRunning = FALSE]
  /\ UNCHANGED <<config, dbVars, procVars, loopVars, clock, plan, updatePlan,
                 names, stream, conn,
                 validated,
                 metaDir,
                 fetch>>

\* executeScheduledJob up to the call of runETLPipeline: readSymbolMetadata,
\* calculateDateRange, updateConfigDateRange; an error of a step ends the job
\* through catch and finally
ExecuteScheduledJob ==
  /\ sched.step = "waiting" /\ ~sched.isRunning
  /\ runs < MaxRuns /\ sched.jobs < MaxJobs
  /\ \E now \in JobClocks, outcome \in {"ok", "metadata_raises", "config_raises"} :
       /\ clock' = now
       /\ sched' =
            IF outcome = "ok"
            THEN [sched EXCEPT !.step = "etl", !.isRunning = TRUE,
                               !.jobs = @ + 1, !.startedAtRuns = runs,
                               !.dateRange = calculateDateRange(now)]
            ELSE [sched EXCEPT !.jobs = @ + 1, !.isRunning = FALSE]
  /\ UNCHANGED <<config, dbVars, procVars, loopVars, plan, updatePlan, names,
                 stream, conn,
                 validated,
                 metaDir,
                 fetch>>

\* executeScheduledJob is called while a job is running (the cron trigger of
\* the next Sunday, or a second call): it returns at once
TriggerWhileRunning ==
  /\ sched.step = "etl" /\ sched.isRunning /\ ~ProcessExited
  /\ sched.skipped < MaxSkips
  /\ sched' = [sched EXCEPT !.skipped = @ + 1]
  /\ UNCHANGED <<config, dbVars, procVars, loopVars, clock, plan, updatePlan,
                 names, stream, conn, validated,
                 metaDir,
                 fetch>>

\* runETLPipeline, step 1: orchestrator.runAll(false) throws; the job ends
\* through catch and finally
FetchRaises ==
  /\ InFetch
  /\ sched' = [sched EXCEPT !.step = "waiting", !.isRunning = FALSE]
  /\ UNCHANGED <<config, dbVars, procVars, loopVars, clock, plan, updatePlan,
                 names, stream, conn,
                 validated,
                 metaDir,
                 fetch>>

\* the files the fetch stage leaves in the data directories
JobFiles ==
  { <<CsvFile(DataTarget, r)>> :
      r \in SeqsUpTo({ CsvRow(ts, 1, 1, 1, 1, EmptyField) : ts \in Timestamps },
                     1) }

\* runETLPipeline, steps 1 and 2: orchestrator.runAll(false) returns and
\* importToDatabase is called in the scheduler's process
FetchAndImportInJob ==
  /\ InFetch
  /\ \E files \in JobFiles : StartProcess(files, FALSE)

NextScheduler ==
  \/ SchedulerStart
  \/ ExecuteScheduledJob
  \/ TriggerWhileRunning
  \/ FetchRaises
  \/ FetchAndImportInJob
  \/ Pipeline

SpecScheduler == InitCatalog /\ [][NextScheduler]_vars

(* ------------------------ the streaming ingest ------------------------- *)
\* config.STREAM_BATCH_SIZE, scaled down; config.ENABLE_STREAMING is true
STREAM_BATCH_SIZE == 2

\* the table the streamed file belongs to
StreamTable == TableOf(DataTarget)

StreamRowPool ==
  { CsvRow(ts, 1, 1, 1, 1, EmptyField) : ts \in Timestamps } \cup {NegativeRow}
StreamFiles == SeqsUpTo(StreamRowPool, MaxStream)

\* arrays hold the positions of their records in the file; the records
StreamRecords(rows, ids) == [k \in 1..Len(ids) |-> ToRecord(rows[ids[k]])]

\* records.slice(i, i + BATCH_SIZE)
SliceAt(arr, start) ==
  SubSeq(arr, start + 1, Min(start + INSERT_BATCH_SIZE, Len(arr)))

\* the records of a batch are handed to insertBatch once more
CountHanded(handed, batch) ==
  [k \in DOMAIN handed |->
     handed[k] + Cardinality({ j \in 1..Len(batch) : batch[j] = k })]

\* processStreamBatch is called on a non-empty records: insertRecordsBatched
\* receives the array records refers to, slices its first batch and calls
\* insertBatch, which awaits pool.connect()
StartFlush(st, final) ==
  LET arr == st.arrays[st.cur]
      flush == [arr |-> st.cur, i |-> 0, batch |-> SliceAt(arr, 0),
                state |-> "connect", failed |-> 0, inserted |-> 0,
                updated |-> 0, final |-> final]
  IN  [st EXCEPT !.flushes = Append(@, flush),
                 !.handed = CountHanded(@, flush.batch)]

\* importCSVFile is called on a file: the read stream is created
OpenStream ==
  /\ stream.state = "closed" /\ pc = "idle"
  /\ \E rows \in StreamFiles :
       stream' = [NoStream EXCEPT !.state = "reading", !.rows = rows]
  /\ existing' = existing \cup {StreamTable}
  /\ UNCHANGED <<config, tables, catalog, lastIngested, procVars, loopVars,
                 clock, plan, updatePlan, names, sched, conn,
                 validated,
                 metaDir,
                 fetch>>

\* the 'data' handler up to its first await: validation, push, and the call of
\* processStreamBatch when records has reached STREAM_BATCH_SIZE.  The stream
\* does not wait for the promise of the handler.
StreamData ==
  /\ stream.state = "reading"
  /\ stream.read < Len(stream.rows)
  /\ LET k == stream.read + 1
         st1 == [stream EXCEPT !.read = k]
         st2 == [st1 EXCEPT !.arrays[st1.cur] = Append(@, k)]
     IN  stream' =
           IF ~isValidRecord(stream.rows[k]) /\ config.SKIP_MALFORMED_RECORDS
           THEN st1
           ELSE IF Len(st2.arrays[st2.cur]) >= STREAM_BATCH_SIZE
                THEN StartFlush(st2, FALSE)
                ELSE st2
  /\ UNCHANGED <<config, dbVars, procVars, loopVars, clock, plan, updatePlan,
                 names, sched, conn,
                 validated,
                 metaDir,
                 fetch>>

\* the 'end' handler up to its first await: the remainder is flushed, or the
\* promise of importCSVFile is resolved at once
StreamEnd ==
  /\ stream.state = "reading"
  /\ stream.read = Len(stream.rows)
  /\ stream' = IF Len(stream.arrays[stream.cur]) > 0
               THEN [StartFlush(stream, TRUE) EXCEPT !.state = "ending"]
               ELSE [stream EXCEPT !.state = "resolved"]
  /\ UNCHANGED <<config, dbVars, procVars, loopVars, clock, plan, updatePlan,
                 names, sched, conn,
                 validated,
                 metaDir,
                 fetch>>

\* insertBatch: pool.connect() has answered and BEGIN is sent
StreamBeginBatch ==
  /\ \E f \in 1..Len(stream.flushes) :
       /\ stream.flushes[f].state = "connect"
       /\ stream' = [stream EXCEPT !.flushes[f].state = "open"]
  /\ UNCHANGED <<config, dbVars, procVars, loopVars, clock, plan, updatePlan,
                 names, sched, conn,
                 validated,
                 metaDir,
                 fetch>>

\* insertRecordsBatched has returned to processStreamBatch: the totals are
\* added and records is set to a new empty array; the 'end' handler resolves
FlushReturned(st, f, fl) ==
  [st EXCEPT !.flushes[f] = [fl EXCEPT !.state = "done"],
             !.totalInserted = @ + fl.inserted,
             !.totalUpdated = @ + fl.updated,
             !.arrays = Append(@, <<>>),
             !.cur = Len(st.arrays) + 1,
             !.state = IF fl.final THEN "resolved" ELSE @]

\* insertRecordsBatched has thrown (strict mode): the 'data' handler logs the
\* error, the 'end' handler rejects
FlushThrew(st, f, fl) ==
  [st EXCEPT !.flushes[f] = [fl EXCEPT !.state = "threw"],
             !.state = IF fl.final THEN "rejected" ELSE @]

\* the rest of insertBatch (statements, COMMIT or ROLLBACK, release) and of
\* the iteration of insertRecordsBatched's loop that called it, up to the
\* next await: the next slice of the same array, or the return
StreamEndBatch ==
  /\ \E f \in 1..Len(stream.flushes) :
       /\ stream.flushes[f].state = "open"
       /\ LET fl == stream.flushes[f]
              batch == StreamRecords(stream.rows, fl.batch)
          IN  \E failAt \in 0..Len(batch) :
                LET res == insertBatch(tables[StreamTable], batch, NoString, failAt)
                    failed == IF res.threw THEN fl.failed + 1 ELSE fl.failed
                    fl1 == [fl EXCEPT !.failed = failed,
                                      !.inserted = @ + res.inserted,
                                      !.updated = @ + res.updated]
                    nexti == fl.i + INSERT_BATCH_SIZE
                    arr == stream.arrays[fl.arr]
                IN  /\ tables' = [tables EXCEPT ![StreamTable] = res.rows]
                    /\ lastIngested' =
                         IF res.threw THEN lastIngested
                         ELSE [lastIngested EXCEPT ![StreamTable] = Ingested(@, batch)]
                    /\ stream' =
                         IF res.threw /\ ~config.CONTINUE_ON_BATCH_FAILURE
                         THEN FlushThrew(stream, f, fl1)
                         ELSE IF res.threw /\ TooManyFailed(failed, config)
                         THEN FlushReturned(stream, f, fl1)
                         ELSE IF nexti < Len(arr)
                         THEN [stream EXCEPT
                                 !.flushes[f] = [fl1 EXCEPT !.i = nexti,
                                                   !.batch = SliceAt(arr, nexti),
                                                   !.state = "connect"],
                                 !.handed = CountHanded(@, SliceAt(arr, nexti))]
                         ELSE FlushReturned(stream, f, fl1)
  /\ UNCHANGED <<config, existing, catalog, procVars, loopVars, clock, plan,
                 updatePlan, names, sched, conn,
                 validated,
                 metaDir,
                 fetch>>

NextStreaming ==
  \/ OpenStream
  \/ StreamData
  \/ StreamEnd
  \/ StreamBeginBatch
  \/ StreamEndBatch

SpecStreaming == Init /\ [][NextStreaming]_vars

(* -------------------- insertBatch, statement by statement -------------- *)
BatchTable == TableOf(DataTarget)

\* the batches insertBatch is called with
Batches ==
  { b \in SeqsUpTo({ ToRecord(r) : r \in ValidRows }, INSERT_BATCH_SIZE) : b # <<>> }

Sent(query, ok) == [query |-> query, ok |-> ok]

\* a finally block that keeps the client
release_Never(checkedOut) == checkedOut

\* client.release(): the connection goes back to the pool
release(checkedOut) == checkedOut - 1

\* insertBatch is called: await this.pool.connect(); without a client the
\* call throws before its try block
BatchConnect ==
  /\ conn.step = "idle" /\ conn.batches < MaxBatches
  /\ \E batch \in Batches, ok \in BOOLEAN :
       conn' = IF ok
               THEN [conn EXCEPT !.step = "begin", !.checkedOut = @ + 1,
                                 !.releases = 0, !.log = <<>>, !.batch = batch,
                                 !.k = 0, !.inserted = 0, !.updated = 0,
                                 !.outcome = "running"]
               ELSE [conn EXCEPT !.batches = @ + 1, !.log = <<>>,
                                 !.releases = 0, !.batch = batch,
                                 !.outcome = "no client"]
  /\ UNCHANGED <<config, dbVars, procVars, loopVars, clock, plan, updatePlan,
                 names, sched, stream,
                 validated,
                 metaDir,
                 fetch>>

\* await client.query('BEGIN')
BatchBegin ==
  /\ conn.step = "begin"
  /\ \E ok \in BOOLEAN :
       conn' = [conn EXCEPT !.log = Append(@, Sent("BEGIN", ok)),
                            !.inTx = ok,
                            !.view = tables[BatchTable],
                            !.step = IF ok THEN "statements" ELSE "catch"]
  /\ UNCHANGED <<config, dbVars, procVars, loopVars, clock, plan, updatePlan,
                 names, sched, stream,
                 validated,
                 metaDir,
                 fetch>>

\* one iteration of the for loop: await client.query(insertQuery, values)
BatchStatement ==
  /\ conn.step = "statements" /\ conn.k < Len(conn.batch)
  /\ \E ok \in BOOLEAN :
       LET rec == conn.batch[conn.k + 1]
           ins == ReturnsInserted(conn.view, rec)
       IN  conn' = IF ok
                   THEN [conn EXCEPT !.k = @ + 1,
                                     !.view = UpsertRow(@, rec, DataTarget.timeframe),
                                     !.inserted = @ + (IF ins THEN 1 ELSE 0),
                                     !.updated = @ + (IF ins THEN 0 ELSE 1)]
                   ELSE [conn EXCEPT !.step = "catch"]
  /\ UNCHANGED <<config, dbVars, procVars, loopVars, clock, plan, updatePlan,
                 names, sched, stream,
                 validated,
                 metaDir,
                 fetch>>

\* await client.query('COMMIT'): the transaction is over whether the COMMIT
\* succeeds (the view becomes the table) or fails (nothing is stored)
BatchCommit ==
  /\ conn.step = "statements" /\ conn.k = Len(conn.batch)
  /\ \E ok \in BOOLEAN :
       /\ conn' = [conn EXCEPT !.log = Append(@, Sent("COMMIT", ok)),
                               !.inTx = FALSE,
                               !.outcome = IF ok THEN "returned" ELSE @,
                               !.step = IF ok THEN "finally" ELSE "catch"]
       /\ tables' = IF ok THEN [tables EXCEPT ![BatchTable] = Commit(@, conn.view)]
                    ELSE tables
       /\ lastIngested' = IF ok
                          THEN [lastIngested EXCEPT
                                  ![BatchTable] = Ingested(@, conn.batch)]
                          ELSE lastIngested
  /\ UNCHANGED <<config, existing, catalog, procVars, loopVars, clock, plan,
                 updatePlan, names, sched, stream,
                 validated,
                 metaDir,
                 fetch>>

\* the catch block: await client.query('ROLLBACK'), then throw; a ROLLBACK
\* fails only on a connection that is lost, and the server then ends the
\* transaction itself
BatchRollback ==
  /\ conn.step = "catch"
  /\ \E ok \in BOOLEAN :
       conn' = [conn EXCEPT !.log = Append(@, Sent("ROLLBACK", ok)),
                            !.inTx = FALSE,
                            !.inserted = 0, !.updated = 0,
                            !.outcome = "threw",
                            !.step = "finally"]
  /\ UNCHANGED <<config, dbVars, procVars, loopVars, clock, plan, updatePlan,
                 names, sched, stream,
                 validated,
                 metaDir,
                 fetch>>

\* the finally block: client.release()
BatchRelease ==
  /\ conn.step = "finally"
  /\ conn' = [conn EXCEPT !.checkedOut = release(@), !.releases = @ + 1,
                          !.batches = @ + 1, !.step = "idle"]
  /\ UNCHANGED <<config, dbVars, procVars, loopVars, clock, plan, updatePlan,
                 names, sched, stream,
                 validated,
                 metaDir,
                 fetch>>

NextBatch ==
  \/ BatchConnect
  \/ BatchBegin
  \/ BatchStatement
  \/ BatchCommit
  \/ BatchRollback
  \/ BatchRelease

SpecBatch == InitCatalog /\ [][NextBatch]_vars

(* ------------------------- rescans of a table -------------------------- *)
\* bars without volume, with the volume 0 and with a positive volume
RescanRowPool ==
  { CsvRow(ts, 1, 1, 1, 1, v) : ts \in Timestamps, v \in {EmptyField, 0, 3} }
RescanFiles == { <<CsvFile(DataTarget, r)>> : r \in SeqsUpTo(RescanRowPool, 2) }

RescanImport == \E files \in RescanFiles : StartProcess(files, FALSE)

\* DatabaseMetadataManager.markSymbolUpdated called on a table of the database
\* at a later time
MarkSymbolUpdated ==
  /\ pc \in {"idle", "exited"}
  /\ clock < MaxRescans
  /\ clock' = clock + 1
  /\ \E name \in existing, refreshRaises \in BOOLEAN :
       /\ catalog' = markSymbolUpdated(catalog, name, tables[name],
                                       refreshRaises, clock')
       /\ rescanned' = IF refreshRaises THEN NoString ELSE name
  /\ UNCHANGED <<config, existing, tables, lastIngested, csvFiles, pc, fileIdx,
                 fileResult, importTotals, exitCode, runs, imported, meta,
                 ceilingHit, firstRun, loopVars, plan, updatePlan, toolVars>>

NextRescan == RescanImport \/ Pipeline \/ MarkSymbolUpdated

SpecRescan == InitCatalog /\ [][NextRescan]_vars

(* ------------------------ validation of a row -------------------------- *)
\* the fields of a price column: texts, a negative number, zero, a price, the
\* largest price allowed and the one above it
PriceFields ==
  {BadText, EmptyField, NumberThenText, -1, 0, 1, MAX_PRICE_VALUE,
   MAX_PRICE_VALUE + 1}
TimestampFields == Timestamps \cup {BadText, EmptyField}
ValidationRows ==
  { CsvRow(ts, o, h, l, c, EmptyField) :
      ts \in TimestampFields, o \in PriceFields, h \in PriceFields,
      l \in {BadText, -1, 1}, c \in {NumberThenText, 1} }

\* isValidRecord is called on a row
IsValidRecord ==
  /\ ~validated.called
  /\ \E row \in ValidationRows :
       validated' = [called |-> TRUE, row |-> row, result |-> isValidRecord(row)]
  /\ UNCHANGED <<config, dbVars, procVars, loopVars, clock, plan, updatePlan,
                 names, sched, stream, conn,
                 metaDir,
                 fetch>>

SpecValidation == InitCatalog /\ [][IsValidRecord]_vars

(* ------------------------- metadata files ------------------------------ *)
MetadataPrefix == <<"m","e","t","a","d","a","t","a","_">>
TradfiJson == <<"_","t","r","a","d","f","i",".","j","s","o","n">>
CryptoJson == <<"_","c","r","y","p","t","o",".","j","s","o","n">>

\* generateSymbolMetadata: the name of the file it writes
writtenFilename(symbol, assetType, timeframe, exchange) ==
  IF assetType = "tradfi"
  THEN MetadataPrefix \o symbol \o <<"_">> \o timeframe \o TradfiJson
  ELSE MetadataPrefix \o toLowerCase(replaceFirstSlash(symbol)) \o <<"_">>
         \o timeframe \o <<"_">> \o exchange \o CryptoJson

\* SymbolMetadataManager.getSymbolMetadata: the name of the file it reads
readFilename(symbol, assetType, exchange) ==
  IF assetType = "tradfi"
  THEN MetadataPrefix \o symbol \o TradfiJson
  ELSE MetadataPrefix \o toLowerCase(replaceFirstSlash(symbol)) \o <<"_">>
         \o exchange \o CryptoJson

\* SymbolMetadataManager.getSymbolMetadata: the content of the file, nothing
\* when the file does not exist
getSymbolMetadataFile(files, symbol, assetType, exchange) ==
  { f.content : f \in { g \in files :
                           g.name = readFilename(symbol, assetType, exchange) } }

\* SymbolMetadataManager.checkSymbolNeedsUpdate on what getSymbolMetadata
\* returned
checkSymbolNeedsUpdate(found, newDataTimestamp) ==
  IF found = {} THEN [needsUpdate |-> TRUE, reason |-> "no_metadata"]
  ELSE IF newDataTimestamp = Null
  THEN [needsUpdate |-> FALSE, reason |-> "up_to_date"]
  ELSE LET metadata == CHOOSE c \in found : TRUE
           lastAvailable == NewDate(metadata.stats.last_available_timestamp)
       IN  IF NewDate(newDataTimestamp) > lastAvailable
           THEN [needsUpdate |-> TRUE, reason |-> "new_data_available"]
           ELSE [needsUpdate |-> FALSE, reason |-> "up_to_date"]

\* contents of a table: no row, one row, two rows
MetadataTables ==
  LET row(ts) == NewRow(ToRecord(CsvRow(ts, 1, 1, 1, 1, EmptyField)), m1)
  IN  { {}, {row(1)}, {row(1), row(2)} }

\* updateSymbolMetadata / generateSymbolMetadata writes the file of a target
UpdateSymbolMetadata ==
  /\ ~metaDir.check.called /\ metaDir.writes < MaxWrites
  /\ \E t \in CatalogTargets, rows \in MetadataTables :
       LET name == writtenFilename(t.symbol, t.assetType, t.timeframe, t.exchange)
           content == [target |-> t, stats |-> generateSymbolMetadata(rows)]
       IN  metaDir' =
             [metaDir EXCEPT
                !.files = { f \in @ : f.name # name }
                            \cup {[name |-> name, content |-> content]},
                !.written = { c \in @ : c.target # t } \cup {content},
                !.writes = @ + 1]
  /\ UNCHANGED <<config, dbVars, procVars, loopVars, clock, plan, updatePlan,
                 names, sched, stream, conn, validated,
                 fetch>>

\* checkSymbolNeedsUpdate is called for a symbol
CheckSymbolNeedsUpdate ==
  /\ ~metaDir.check.called
  /\ \E t \in CatalogTargets, newDataTimestamp \in {Null} \cup Timestamps :
       LET found == getSymbolMetadataFile(metaDir.files, t.symbol, t.assetType,
                                          t.exchange)
       IN  metaDir' =
             [metaDir EXCEPT
                !.check = [called |-> TRUE, target |-> t, found |-> found,
                           answer |-> checkSymbolNeedsUpdate(found, newDataTimestamp)]]
  /\ UNCHANGED <<config, dbVars, procVars, loopVars, clock, plan, updatePlan,
                 names, sched, stream, conn, validated,
                 fetch>>

NextMetadataFiles == UpdateSymbolMetadata \/ CheckSymbolNeedsUpdate

SpecMetadataFiles == InitCatalog /\ [][NextMetadataFiles]_vars

(* --------------------------- the crypto fetch -------------------------- *)
\* _getTimeframeDurationMs: one candle is one tick
timeframeDuration == 1

\* the candles of one answer of exchange.fetchOHLCV, by their timestamps:
\* any candles in any order, also candles before the time asked for
CandleBatches == UNION { [1..k -> 0..MaxUntil] : k \in 1..2 }

\* what a call of exchange.fetchOHLCV can do
Responses ==
  { [kind |-> "candles", candles |-> c] : c \in CandleBatches }
    \cup { [kind |-> k, candles |-> <<>>] : k \in {"empty", "ccxt_error", "error"} }

\* fetchHistoricalData is called on a date range; since is tick 0
StartFetch ==
  /\ fetch.state = "idle"
  /\ \E until \in 1..MaxUntil, maxRetries \in 1..MaxRetries :
       fetch' = [NoFetch EXCEPT !.state = "loop", !.until = until,
                                !.maxRetries = maxRetries]
  /\ UNCHANGED <<config, dbVars, procVars, loopVars, clock, plan, updatePlan,
                 names, sched, stream, conn, validated, metaDir>>

\* one pass of while (currentTime < until); batchCount is compared with
\* maxRetries only and is counted up to MaxRetries
FetchBatch ==
  /\ fetch.state = "loop"
  /\ \E r \in Responses :
       LET batchCount == Min(fetch.batchCount + 1, MaxRetries)
           last == r.candles[Len(r.candles)]
           validCandles == { r.candles[k] : k \in 1..Len(r.candles) }
                             \cap (0..fetch.until)
       IN  fetch' =
             IF r.kind = "candles"
             THEN [fetch EXCEPT
                     !.batchCount = batchCount,
                     !.allCandles = @ \cup validCandles,
                     !.currentTime = last + timeframeDuration,
                     !.retries = 0,
                     !.state = IF last + timeframeDuration >= fetch.until
                               THEN "returned" ELSE "loop"]
             ELSE IF r.kind = "empty"
             THEN [fetch EXCEPT !.batchCount = batchCount, !.state = "returned"]
             ELSE IF r.kind = "ccxt_error" /\ batchCount < fetch.maxRetries
             THEN [fetch EXCEPT !.batchCount = batchCount, !.retries = @ + 1]
             ELSE [fetch EXCEPT !.batchCount = batchCount, !.state = "thrown"]
  /\ UNCHANGED <<config, dbVars, procVars, loopVars, clock, plan, updatePlan,
                 names, sched, stream, conn, validated, metaDir>>

NextFetch == StartFetch \/ FetchBatch

\* the exchange answers every request (the client has a timeout) and the
\* loop goes on by itself
SpecFetch == InitCatalog /\ [][NextFetch]_vars /\ WF_vars(FetchBatch)

(* ----------------------- runs over two files ---------------------------- *)
\* two files of any two targets, each with one bar
SchemaFiles ==
  { <<CsvFile(t1, <<CsvRow(1, 1, 1, 1, 1, EmptyField)>>),
      CsvFile(t2, <<CsvRow(1, 1, 1, 1, 1, EmptyField)>>)>> :
      t1 \in CatalogTargets, t2 \in CatalogTargets }

SchemaImport == \E files \in SchemaFiles : StartProcess(files, FALSE)

NextSchema == SchemaImport \/ Pipeline

SpecSchema == InitCatalog /\ [][NextSchema]_vars

(* ------------------------------ claims --------------------------------- *)
DataTable == TableOf(DataTarget)

SameBar(row, rec) ==
  /\ row.timestamp = rec.timestamp
  /\ row.open = rec.open /\ row.high = rec.high /\ row.low = rec.low
  /\ row.close = rec.close /\ row.volume = rec.volume

\* C1: after any sequence of committed batch upserts a table holds at most one
\* row per timestamp, rows exist exactly for the timestamps ingested, and each
\* row carries the open/high/low/close/volume of the bar ingested last with
\* its timestamp.
C1_LastWriterWins ==
  \A n \in TableNames :
    /\ \A r1, r2 \in tables[n] : r1.timestamp = r2.timestamp => r1 = r2
    /\ { r.timestamp : r \in tables[n] } = DOMAIN lastIngested[n]
    /\ \A r \in tables[n] : SameBar(r, lastIngested[n][r.timestamp])

\* C1 witness: a file carried two bars with one timestamp and different close
\* prices, both were committed, and the table holds the later close.
C1_Witness ==
  /\ pc = "mark" /\ failedBatches = 0
  /\ \E a, b \in 1..Len(records) :
       /\ a < b /\ records[a].timestamp = records[b].timestamp
       /\ records[a].close # records[b].close
       /\ \A c \in (b + 1)..Len(records) : records[c].timestamp # records[b].timestamp
       /\ \E r \in tables[DataTable] :
            r.timestamp = records[b].timestamp /\ r.close = records[b].close

\* both runs of a re-import ended with status 0 and without a failed batch
BothRunsClean ==
  /\ runs = 2 /\ pc = "exited" /\ exitCode = 0 /\ failedBatches = 0
  /\ firstRun.ran /\ firstRun.exitCode = 0 /\ firstRun.failedBatches = 0

DistinctTimestamps(recs) ==
  \A a, b \in 1..Len(recs) : a # b => recs[a].timestamp # recs[b].timestamp

\* the counts C2 states for the two runs over the N records of the file
IdempotentCounts ==
  LET N == Len(records)
  IN  /\ firstRun.inserted = N /\ firstRun.updated = 0
      /\ importTotals.inserted = 0 /\ importTotals.updated = N
      /\ Cardinality(tables[DataTable]) = N

\* C2 as stated: ingesting the same sequence of N records twice into an empty
\* table (no batch failing) returns inserted = N, updated = 0, then
\* inserted = 0, updated = N, and leaves N rows.
C2_Original == BothRunsClean => IdempotentCounts

\* C2 amended: the same, for a sequence of N records with pairwise distinct
\* timestamps.
C2_IdempotentReingest ==
  (BothRunsClean /\ DistinctTimestamps(records)) => IdempotentCounts

\* C2 witness: two clean runs over the same file of at least two records with
\* distinct timestamps.
C2_Witness ==
  BothRunsClean /\ DistinctTimestamps(records) /\ Len(records) >= 2

\* C3: a batch in which a statement raised leaves every table as it was
\* before the batch, and the caller's catch has run (the failure is counted).
C3_RollbackIsAtomic ==
  [][(pc = "insert" /\ raisedAt' # 0)
       => (tables' = tables /\ failedBatches' = failedBatches + 1)]_vars

\* C3 witness: the second statement of a batch raised, after the first had
\* written, on a table that held rows before the batch.
C3_Witness ==
  /\ raisedAt = 2 /\ failedBatches >= 1
  /\ tables[DataTable] # {}

\* Math.ceil(records.length / BATCH_SIZE)
TotalBatches == (Len(records) + INSERT_BATCH_SIZE - 1) \div INSERT_BATCH_SIZE

\* batches insertRecordsBatched has called insertBatch on
AttemptedBatches == (i \div INSERT_BATCH_SIZE) + (IF ceilingHit THEN 1 ELSE 0)

InsertLoopEnded == pc \in {"mark", "post", "exited"} /\ records # <<>>

\* C4: failedBatches never exceeds MAX_FAILED_BATCHES (M); in lenient mode no
\* batch is attempted once M batches have failed; and when every attempted
\* batch failed in a file of at least M batches, the loop ends having
\* attempted exactly M batches, with failedBatches = M and inserted = 0.
C4_FailureCeiling ==
  /\ failedBatches <= config.MAX_FAILED_BATCHES
  /\ (config.CONTINUE_ON_BATCH_FAILURE /\ failedBatches >= config.MAX_FAILED_BATCHES)
       => pc # "insert"
  /\ ( /\ config.CONTINUE_ON_BATCH_FAILURE
       /\ InsertLoopEnded
       /\ totalInserted + totalUpdated = 0
       /\ TotalBatches >= config.MAX_FAILED_BATCHES )
       => /\ failedBatches = config.MAX_FAILED_BATCHES
          /\ AttemptedBatches = config.MAX_FAILED_BATCHES
          /\ totalInserted = 0

\* C4 witness: the spec's case, M = 3: three batches failed, nothing was
\* inserted, and a fourth batch of the file was left unattempted.
C4_Witness ==
  /\ config.CONTINUE_ON_BATCH_FAILURE /\ config.MAX_FAILED_BATCHES = 3
  /\ pc = "mark" /\ ceilingHit
  /\ failedBatches = 3 /\ totalInserted = 0
  /\ i + INSERT_BATCH_SIZE < Len(records)

\* the positions of the rows of a file that isValidRecord refuses
InvalidRows(rows) == { k \in 1..Len(rows) : ~isValidRecord(rows[k]) }

\* C5 as stated: with SKIP_MALFORMED_RECORDS set, a file of valid rows with
\* pairwise distinct timestamps plus one row with a negative price, ingested
\* into an empty table, drops that one row and inserts all the others; with
\* the flag clear the same file aborts the ingest: nothing of it is committed
\* and no row with a negative price is ever stored.
C5_ValidationSkipPolicy ==
  /\ (/\ config.SKIP_MALFORMED_RECORDS /\ runs = 1 /\ pc = "mark"
      /\ failedBatches = 0
      /\ Cardinality(InvalidRows(imported[1].rows)) = 1
      /\ DistinctTimestamps(records))
       => /\ Len(imported[1].rows) - Len(records) = 1
          /\ totalInserted = Len(imported[1].rows) - 1
  /\ (/\ ~config.SKIP_MALFORMED_RECORDS /\ runs >= 1
      /\ pc \in {"insert", "mark", "post", "exited"}
      /\ InvalidRows(imported[1].rows) # {})
       => /\ totalInserted + totalUpdated = 0
          /\ \A r \in tables[DataTable] : r.low >= 0

\* C6 as stated: a run in which insertRecordsBatched stopped at the failure
\* ceiling ends with a non-zero exit status.
C6_NonZeroExitOnCeiling == (pc = "exited" /\ ceilingHit) => exitCode # 0

\* C7 as stated: a run ended by the failure ceiling or by a strict-mode batch
\* failure hands its caller the inserted and updated counts accumulated up to
\* the failure.
C7_FailureReportsCounts ==
  (pc = "exited" /\ (ceilingHit \/ fileResult.state = "rejected"))
    => /\ fileResult.inserted = totalInserted
       /\ fileResult.updated = totalUpdated

\* C8: the can_update_from of a Catalog Entry, once set, never exceeds the
\* greatest timestamp stored in the entry's table, and right after a
\* successful rescan of a table the entry of that table (if the catalog has
\* one) carries exactly that greatest timestamp.
C8_ResumePointWithinData ==
  /\ \A e \in catalog :
       e.can_update_from # Null
         => /\ tables[e.table_name] # {}
            /\ e.can_update_from <= MaxTimestamp(tables[e.table_name])
  /\ rescanned # NoString
       => \A e \in catalog :
            e.table_name = rescanned
              => e.can_update_from = MaxTimestamp(tables[rescanned])

\* C8 witness: a second import has committed a later bar and its rescan
\* failed, so the resume point set by the first import lies strictly below the
\* greatest stored timestamp.
C8_Witness ==
  /\ runs = 2 /\ pc = "post" /\ totalInserted >= 1
  /\ \E e \in catalog :
       /\ e.table_name = DataTable
       /\ e.can_update_from # Null
       /\ e.can_update_from < MaxTimestamp(tables[DataTable])

\* C9 as stated: in every reachable state, failed steps included, every
\* existing OHLCV table has exactly one Catalog Entry and every Catalog Entry
\* names an existing table.
C9_OneEntryPerTable ==
  /\ \A n \in existing : Cardinality({ e \in catalog : e.table_name = n }) = 1
  /\ \A e \in catalog : e.table_name \in existing

\* C10 as stated: the plan is full when the symbol has no Catalog Entry, none
\* when can_update_from is at or after the end of yesterday or lies on
\* yesterday, and otherwise incremental from can_update_from to the end of
\* yesterday.
C10_PlanKinds ==
  plan # NoPlan =>
    LET entries == { e \in catalog : e.symbol = plan.symbol }
        endOfYesterday == (clock \div DayLen) * DayLen - 1
        yesterday == (clock \div DayLen) - 1
        upToDate(e) ==
          /\ e.can_update_from # Null
          /\ \/ e.can_update_from >= endOfYesterday
             \/ e.can_update_from \div DayLen = yesterday
    IN  /\ entries = {} => plan.updateType = "full"
        /\ \A e \in entries :
             IF upToDate(e)
             THEN plan.updateType = "none"
             ELSE /\ plan.updateType = "incremental"
                  /\ plan.fromDate = e.can_update_from
                  /\ plan.toDate = endOfYesterday

\* the day an instant lies on
DayOf(t) == t \div DayLen

\* the plan is incremental and starts at the resume point of an entry of its
\* symbol
IncrementalFromEntry ==
  /\ plan.updateType = "incremental"
  /\ \E e \in catalog :
       /\ e.symbol = plan.symbol
       /\ e.can_update_from # Null
       /\ e.can_update_from = plan.fromDate

\* C11 as stated: an incremental plan for can_update_from on day D, made when
\* yesterday is day Y, has to on day Y and gap_days = Y - D (2024-01-05 and
\* 2024-01-20 give 15).
C11_Original ==
  IncrementalFromEntry
    => /\ DayOf(plan.toDate) = DayOf(clock) - 1
       /\ plan.gapDays = DayOf(plan.toDate) - DayOf(plan.fromDate)

\* C11 amended: gap_days of an incremental plan is (to - from) / 1 day rounded
\* up, where to is the last instant of yesterday: for a from on day D and
\* yesterday Y this is Y - D + 1, and Y - D only when from is itself the last
\* instant of day D.
C11_GapDays ==
  plan.updateType = "incremental"
    => /\ plan.toDate = DayOf(clock) * DayLen - 1
       /\ plan.gapDays * DayLen >= plan.toDate - plan.fromDate
       /\ (plan.gapDays - 1) * DayLen < plan.toDate - plan.fromDate
       /\ plan.gapDays =
            DayOf(plan.toDate) - DayOf(plan.fromDate)
              + (IF plan.fromDate % DayLen = DayLen - 1 THEN 0 ELSE 1)

\* C11 witness: a plan from a resume point at the start of a day at least one
\* day before yesterday; its gap_days is one more than the difference of days.
C11_Witness ==
  /\ IncrementalFromEntry
  /\ plan.fromDate % DayLen = 0
  /\ DayOf(plan.toDate) - DayOf(plan.fromDate) >= 1
  /\ plan.gapDays = DayOf(plan.toDate) - DayOf(plan.fromDate) + 1

\* C12 as stated: generateUpdatePlan returns one plan per Catalog Entry in
\* table-name order, and the plan at the position of an entry is the plan of
\* that entry's own can_update_from.
C12_PlanPerEntry ==
  updatePlan # NoUpdatePlan =>
    LET rows == getSymbolsNeedingUpdate(catalog)
        plans == updatePlan.symbols
        endDate == DayOf(clock) * DayLen - 1
    IN  /\ Len(plans) = Cardinality(catalog)
        /\ \A k \in 1..Len(plans) :
             /\ plans[k].symbol = rows[k].symbol
             /\ \A j \in 1..(k - 1) :
                  LessString(rows[j].table_name, rows[k].table_name)
             /\ IF NewDate(rows[k].can_update_from) >= endDate
                THEN plans[k].updateType = "none"
                ELSE /\ plans[k].updateType = "incremental"
                     /\ plans[k].fromDate = NewDate(rows[k].can_update_from)

\* the sum of the seven counts of a weekday histogram
HistogramSum(dist) ==
  dist.monday + dist.tuesday + dist.wednesday + dist.thursday + dist.friday
    + dist.saturday + dist.sunday

\* C13: in every Catalog Entry the seven counts of day_of_week_distribution
\* sum to total_records, and right after a successful rescan of a table
\* total_records is the number of rows of that table.
C13_HistogramSumsToTotal ==
  /\ \A e \in catalog :
       HistogramSum(e.day_of_week_distribution) = e.total_records
  /\ rescanned # NoString
       => \A e \in catalog :
            e.table_name = rescanned
              => e.total_records = Cardinality(tables[rescanned])

\* C13 witness: a rescan has counted two bars of two different weekdays.
C13_Witness ==
  /\ rescanned = DataTable
  /\ \E e \in catalog :
       /\ e.table_name = DataTable /\ e.total_records = 2
       /\ e.day_of_week_distribution.monday = 1
       /\ e.day_of_week_distribution.saturday = 1

\* a file was ingested without a failed batch and its table rescanned
IngestedAndRescanned ==
  /\ rescanned = DataTable /\ failedBatches = 0 /\ records # <<>>

InputTimestamps == { records[k].timestamp : k \in 1..Len(records) }

SameUpToSymbolCase(a, b) ==
  /\ toLowerCase(a.symbol) = toLowerCase(b.symbol)
  /\ a.assetType = b.assetType /\ a.timeframe = b.timeframe
  /\ a.exchange = b.exchange

\* C15: two calls of getTableName with identical arguments return identical
\* names, and so do two calls whose arguments differ only in the letter case
\* of the symbol.
C15_NamingDeterminism ==
  names.called =>
    /\ names.first = names.second => names.firstName = names.secondName
    /\ SameUpToSymbolCase(names.first, names.second)
         => names.firstName = names.secondName

\* C15 witness: EURUSD and eurusd were named, and the names are the same.
C15_Witness ==
  /\ names.called
  /\ names.first.symbol = EURUSD /\ names.second.symbol = eurusd
  /\ names.first.timeframe = names.second.timeframe
  /\ names.firstName = names.secondName

\* C16: two different targets of a realistic symbol set never get the same
\* name, and a tradfi target never gets the name of a crypto target.
C16_NamingInjective ==
  names.called =>
    /\ (/\ names.first \in RealisticTargets
        /\ names.second \in RealisticTargets
        /\ names.first # names.second)
         => names.firstName # names.secondName
    /\ names.first.assetType # names.second.assetType
         => names.firstName # names.secondName

\* C16 witness: a tradfi symbol spelled like the crypto pair without its
\* separator, same timeframe: the two names differ.
C16_Witness ==
  /\ names.called
  /\ names.first = Target(btcusdt, "tradfi", m1, NoString)
  /\ names.second = Target(BTCUSDT, "crypto", m1, binance)
  /\ names.firstName # names.secondName

\* a scheduled job has ended: through its catch / finally, or with the exit
\* of importToDatabase
JobFinished ==
  /\ sched.jobs >= 1
  /\ sched.step = "waiting" \/ ProcessExited

\* C17 as stated: once a scheduled job has finished, successfully or not, the
\* scheduler process is running with isRunning = false.
C17_SchedulerSurvivesJob ==
  JobFinished => (SchedulerAlive /\ ~sched.isRunning)

\* C18: the date range of a job started today ends on a Friday 1 to 7 days
\* before today and starts exactly 14 days before its end.
C18_DateRange ==
  sched.step = "etl" =>
    LET today == clock \div DayLen
        range == sched.dateRange
    IN  /\ WeekdayOfDay(range.to) = 5
        /\ today - range.to >= 1 /\ today - range.to <= 7
        /\ range.from = range.to - 14

\* C18 witness: a job started on a Friday; its range ends a week earlier.
C18_Witness ==
  /\ sched.step = "etl"
  /\ WeekdayOfDay(clock \div DayLen) = 5
  /\ sched.dateRange.to = (clock \div DayLen) - 7

\* C19 as stated: when a job goes to fetch, its window starts no later than
\* the last stored timestamp of every Catalog Entry that has data.
C19_FetchFromLastTimestamp ==
  InFetch =>
    \A e \in catalog :
      e.last_available_timestamp # Null
        => sched.dateRange.from <= e.last_available_timestamp \div DayLen

\* cleanupCSVFiles has unlinked the files the process was started on
FilesDeleted ==
  /\ pc = "exited" /\ exitCode = 0
  /\ imported # <<>> /\ csvFiles = <<>>

\* every valid record of the file has a row with its timestamp in the table
AllValidRecordsCommitted(file) ==
  \A k \in 1..Len(file.rows) :
    isValidRecord(file.rows[k])
      => \E r \in tables[TableOf(file.target)] :
           r.timestamp = NewDate(file.rows[k].timestamp)

\* C20 as stated: every CSV file deleted by cleanupCSVFiles has had all of its
\* valid records committed to its table.
C20_DeleteOnlyAfterCommit ==
  FilesDeleted =>
    \A f \in 1..Len(imported) : AllValidRecordsCommitted(imported[f])

\* the positions of the records the 'data' handler has pushed
Accepted == UNION { { a[k] : k \in 1..Len(a) } : a \in { stream.arrays[n] : n \in 1..Len(stream.arrays) } }

\* no flush is in flight and none has lost a batch
StreamQuiet ==
  /\ stream.state = "resolved"
  /\ \A f \in 1..Len(stream.flushes) :
       stream.flushes[f].state = "done" /\ stream.flushes[f].failed = 0

\* C21 as stated: in the streaming ingest no accepted record is handed to the
\* batch upserter twice, and once the ingest is over every accepted record
\* has been handed to it.
C21_HandedExactlyOnce ==
  /\ \A k \in 1..MaxStream : stream.handed[k] <= 1
  /\ StreamQuiet => \A k \in Accepted : stream.handed[k] = 1

\* the batch transactions of the run that are open
OpenTransactions ==
  { f \in 1..Len(stream.flushes) : stream.flushes[f].state = "open" }

\* C22 as stated: at most one batch transaction of an ingest run is open at
\* any time.
C22_SequentialBatches == Cardinality(OpenTransactions) <= 1

\* importCSVFile has just resolved for the file before fileIdx
JustReturned ==
  /\ pc \in {"file", "post"} /\ fileResult.state = "resolved"
  /\ fileIdx >= 2

ReturnedTable == TableOf(csvFiles[fileIdx - 1].target)

\* the Catalog Entry of the table counts the rows of the table
EntryCountsRows(name) ==
  \E e \in catalog :
    e.table_name = name /\ e.total_records = Cardinality(tables[name])

\* C23 as stated: when the ingest of a file returns, the rescan has been done:
\* the Catalog Entry of its table has total_records equal to the table's row
\* count.
C23_Original == JustReturned => EntryCountsRows(ReturnedTable)

\* a step of insertRecordsBatched in which the batch failed
BatchFailedStep == pc = "insert" /\ failedBatches' = failedBatches + 1

\* C24: in strict mode the first failed batch ends the run with the error
\* propagated and no later batch attempted; in lenient mode a failure below
\* the ceiling is counted and the loop goes on to the next batch.
C24_FailurePolicy ==
  /\ []((~config.CONTINUE_ON_BATCH_FAILURE /\ failedBatches >= 1)
          => (failedBatches = 1 /\ pc = "exited" /\ exitCode = 1))
  /\ [][BatchFailedStep =>
          IF ~config.CONTINUE_ON_BATCH_FAILURE
          THEN /\ pc' = "exited" /\ exitCode' = 1
               /\ fileResult'.state = "rejected"
               /\ i' = i
          ELSE failedBatches' < config.MAX_FAILED_BATCHES
                 => /\ i' = i + INSERT_BATCH_SIZE
                    /\ pc' = IF i' < Len(records) THEN "insert" ELSE "mark"]_vars

\* C24 witness: strict mode, the first of two batches failed and the run is
\* over with the second batch never attempted.
C24_Witness ==
  /\ ~config.CONTINUE_ON_BATCH_FAILURE
  /\ pc = "exited" /\ exitCode = 1 /\ failedBatches = 1
  /\ i = 0 /\ Len(records) > INSERT_BATCH_SIZE

\* a step of insertRecordsBatched in which the batch committed
BatchCommittedStep == pc = "insert" /\ failedBatches' = failedBatches

\* C25: a failed batch, and every step by which the run stops or goes on
\* between batches, leaves every table as the committed batches left it; no
\* step removes a row.
C25_CommittedBatchesDurable ==
  /\ [][~BatchCommittedStep => tables' = tables]_vars
  /\ [][\A n \in TableNames : \A r \in tables[n] :
          \E r2 \in tables'[n] : r2.timestamp = r.timestamp]_vars

\* C25 witness: strict mode, the first batch committed, the second failed and
\* ended the run; the bars of the first batch are in the table.
C25_Witness ==
  /\ ~config.CONTINUE_ON_BATCH_FAILURE
  /\ pc = "exited" /\ exitCode = 1 /\ failedBatches = 1
  /\ i = INSERT_BATCH_SIZE /\ Len(records) > INSERT_BATCH_SIZE
  /\ \A k \in 1..INSERT_BATCH_SIZE :
       \E r \in tables[DataTable] :
         r.timestamp = records[k].timestamp /\ r.close = records[k].close

\* the COMMITs and ROLLBACKs sent after the BEGIN of the batch
Terminators ==
  { n \in 1..Len(conn.log) : conn.log[n].query \in {"COMMIT", "ROLLBACK"} }

\* insertBatch has ended on a client it had checked out
BatchOver == conn.step = "idle" /\ conn.outcome \in {"returned", "threw"}

\* one connection per batch, released once, none left checked out, no
\* transaction left open
ConnectionDiscipline ==
  /\ conn.checkedOut <= 1
  /\ conn.step = "idle" => (conn.checkedOut = 0 /\ ~conn.inTx)
  /\ BatchOver => conn.releases = 1
  /\ conn.step # "idle" => (conn.checkedOut = 1 /\ conn.releases = 0)

\* C26 as stated: one connection per batch, released exactly once on every
\* path, and every BEGIN followed by exactly one COMMIT or ROLLBACK before the
\* release.
C26_Original ==
  /\ ConnectionDiscipline
  /\ BatchOver => Cardinality(Terminators) = 1

\* C26 amended: one connection per batch, released exactly once on every path;
\* every BEGIN is followed before the release by a successful COMMIT alone or
\* by one ROLLBACK, which comes after the COMMIT when it is the COMMIT that
\* failed.
C26_ConnectionPerBatch ==
  /\ ConnectionDiscipline
  /\ BatchOver =>
       /\ conn.log[1].query = "BEGIN"
       /\ \A n \in 2..Len(conn.log) : conn.log[n].query # "BEGIN"
       /\ IF conn.outcome = "returned"
          THEN conn.log = <<Sent("BEGIN", TRUE), Sent("COMMIT", TRUE)>>
          ELSE /\ conn.log[Len(conn.log)].query = "ROLLBACK"
               /\ Cardinality({ n \in Terminators : conn.log[n].query = "ROLLBACK" }) = 1
               /\ \A n \in Terminators :
                    conn.log[n].query = "COMMIT" => ~conn.log[n].ok

\* C26 witness: the ROLLBACK of a batch failed and its connection has been
\* released.
C26_Witness ==
  /\ BatchOver /\ conn.checkedOut = 0 /\ conn.releases = 1
  /\ conn.log[Len(conn.log)] = Sent("ROLLBACK", FALSE)

\* the batch the next iteration of insertRecordsBatched slices
NextBatchSlice == SubSeq(records, i + 1, Min(i + INSERT_BATCH_SIZE, Len(records)))

\* the records of a batch whose timestamp is neither in the table nor carried
\* by an earlier record of the batch
FreshInBatch(rows, batch) ==
  { k \in 1..Len(batch) :
      /\ ~ \E r \in rows : r.timestamp = batch[k].timestamp
      /\ \A j \in 1..(k - 1) : batch[j].timestamp # batch[k].timestamp }

\* C27: a committed batch adds to the run's totals inserted + updated = the
\* size of the batch, with inserted = the number of its records whose
\* timestamp was not in the table when the record was applied; a failed batch
\* adds nothing.
C27_BatchCounts ==
  [][/\ BatchCommittedStep =>
          /\ (totalInserted' - totalInserted) + (totalUpdated' - totalUpdated)
               = Len(NextBatchSlice)
          /\ totalInserted' - totalInserted
               = Cardinality(FreshInBatch(tables[CurrentTable], NextBatchSlice))
     /\ BatchFailedStep =>
          (totalInserted' = totalInserted /\ totalUpdated' = totalUpdated)]_vars

\* C27 witness: the first batch of a run held two bars with the same
\* timestamp; it committed with one inserted and one updated.
C27_Witness ==
  /\ pc \in {"insert", "mark"} /\ runs = 1
  /\ i = INSERT_BATCH_SIZE /\ failedBatches = 0
  /\ Len(records) >= 2
  /\ records[1].timestamp = records[2].timestamp
  /\ totalInserted = 1 /\ totalUpdated = 1

\* at least one row of the table has a non-null positive volume
SomePositiveVolume(rows) == \E r \in rows : r.volume # Null /\ r.volume > 0

\* C28 as stated: what a rescan reports, in the Catalog Entry and in the
\* metadata file of the table, has volume_available = true if and only if a
\* row of the table has a non-null positive volume, and data_format = 'OHLCV'
\* exactly then.
C28_VolumeAvailable ==
  /\ rescanned # NoString =>
       \A e \in catalog :
         e.table_name = rescanned =>
           /\ e.volume_available = SomePositiveVolume(tables[rescanned])
           /\ (e.data_format = "OHLCV") = e.volume_available
  /\ (pc = "exited" /\ exitCode = 0) =>
       \A n \in existing :
         /\ meta[n].volume_available = SomePositiveVolume(tables[n])
         /\ (meta[n].data_format = "OHLCV") = meta[n].volume_available

\* the statistics of a Catalog Entry
Statistics(e) ==
  <<e.total_records, e.first_available_timestamp, e.last_available_timestamp,
    e.coverage_days, e.volume_available, e.data_format,
    e.day_of_week_distribution, e.can_update_from>>

\* a step that rescans the table the step before it has rescanned
SecondRescan == rescanned # NoString /\ rescanned' = rescanned

\* C29 as stated: a second rescan of an unchanged table leaves the Catalog
\* Entry as it is but for last_metadata_update.
C29_Original ==
  [][SecondRescan =>
       { [e EXCEPT !.last_metadata_update = 0] : e \in catalog' }
         = { [e EXCEPT !.last_metadata_update = 0] : e \in catalog }]_vars

\* C29 amended: a second rescan of an unchanged table leaves the statistics of
\* every Catalog Entry as they are; the entry differs at most in
\* last_metadata_update and last_data_update.
C29_RescanIdempotent ==
  [][SecondRescan =>
       { [e EXCEPT !.last_metadata_update = 0, !.last_data_update = 0] : e \in catalog' }
         = { [e EXCEPT !.last_metadata_update = 0, !.last_data_update = 0] : e \in catalog }]_vars

\* C29 witness: a table with data has been rescanned twice in a row, the second
\* time at a later time.
C29_Witness ==
  /\ rescanned # NoString /\ pc = "exited" /\ clock >= 2
  /\ \E e \in catalog :
       /\ e.table_name = rescanned /\ e.total_records >= 1
       /\ e.last_data_update = clock

\* a step of the import that ensures the table of a target whose table exists
EnsureExistingTable ==
  pc = "file" /\ CurrentTable \in existing /\ pc' # "file"

\* C30: ensuring the table of a target whose table already exists (tableExists,
\* and createSymbolTable with upsertSymbolMetadata when tableExists answers
\* false) leaves the rows of every table as they are and leaves the statistics
\* of the table's Catalog Entry as they are.
C30_EnsureTableIdempotent ==
  [][EnsureExistingTable =>
       /\ tables' = tables
       /\ \A e \in catalog :
            e.table_name = CurrentTable =>
              \E e2 \in catalog' :
                e2.table_name = e.table_name /\ Statistics(e2) = Statistics(e)]_vars

\* C30 witness: createSymbolTable ran again for a table that holds rows and
\* has a rescanned Catalog Entry: the upsert has moved last_metadata_update
\* past the time of the last rescan and the entry still counts the rows.
C30_Witness ==
  /\ pc = "parse" /\ runs = 2
  /\ tables[CurrentTable] # {}
  /\ \E e \in catalog :
       /\ e.table_name = CurrentTable
       /\ e.total_records = Cardinality(tables[CurrentTable])
       /\ e.last_data_update # Null
       /\ e.last_metadata_update > e.last_data_update

\* C31: after upsertSymbolMetadata(symbol, tableName, assetType, exchange,
\* timeframe) the Catalog Entry of tableName carries the symbol, the asset
\* class, the exchange and the timeframe of the call, for every timeframe.
C31_UpsertStoresArguments ==
  \A e \in catalog :
    \E t \in CatalogTargets :
      /\ e.table_name = TableOf(t)
      /\ e.symbol = t.symbol /\ e.asset_type = t.assetType
      /\ e.exchange = t.exchange /\ e.timeframe = t.timeframe

\* a step in which ensuring the table of the current file ends the run
SchemaFailureStep == pc = "file" /\ pc' = "exited"

\* C32: a failure of createSymbolTable ends the run with the error at once,
\* with no row of any table touched and no later file started; and no file is
\* parsed or ingested while its table does not exist, whatever the existence
\* check answered.
C32_SchemaFailureEscalates ==
  /\ [](pc \in {"parse", "insert", "mark"} => CurrentTable \in existing)
  /\ [][SchemaFailureStep =>
          /\ exitCode' = 1
          /\ tables' = tables /\ lastIngested' = lastIngested
          /\ fileIdx' = fileIdx]_vars
  /\ [][(pc = "exited" /\ exitCode = 1 /\ runs' = runs) =>
          /\ pc' = "exited" /\ exitCode' = 1
          /\ tables' = tables /\ fileIdx' = fileIdx]_vars

\* C32 witness: the run has ended with the error at its first file, whose
\* table could not be created; the table of the second file was never
\* created either and no table holds a row.
C32_Witness ==
  /\ pc = "exited" /\ exitCode = 1 /\ runs = 1
  /\ Len(csvFiles) = 2 /\ fileIdx = 1
  /\ csvFiles[1].rows # <<>>
  /\ CurrentTable \notin existing
  /\ TableOf(csvFiles[2].target) \notin existing
  /\ \A n \in TableNames : tables[n] = {}

\* a field that is a number
Numeric(f) == f \notin {EmptyField, BadText, NumberThenText, Null}

\* none of the defects of a row holds: every price is a number from 0 to the
\* maximum and the timestamp is an instant
WellFormed(row) ==
  /\ \A f \in {row.open, row.high, row.low, row.close} :
       Numeric(f) /\ f >= 0 /\ f <= MAX_PRICE_VALUE
  /\ row.timestamp \in Timestamps

\* C33: isValidRecord answers false when a price is no number, is negative or
\* exceeds MAX_PRICE_VALUE and when the timestamp is no instant, and answers
\* true otherwise.
C33_ValidationVerdict ==
  validated.called => (validated.result <=> WellFormed(validated.row))

\* a trigger has returned because a job was running
TriggerSkipped == sched.isRunning /\ sched'.skipped > sched.skipped

\* C34: a trigger that arrives while isRunning is true returns without a
\* pipeline step (no second job body starts), and isRunning is false
\* whenever a started job has ended.
C34_OneJobAtATime ==
  /\ [][TriggerSkipped =>
          /\ UNCHANGED <<config, dbVars, procVars, loopVars, clock>>
          /\ sched'.step = sched.step /\ sched'.jobs = sched.jobs
          /\ sched'.isRunning]_vars
  /\ [](JobFinished => ~sched.isRunning)

\* no ingest run is in progress
Quiescent == pc \in {"idle", "exited"}

\* C35: in every quiescent state, also after a run that a batch failure has
\* aborted or whose rescan has failed, every Catalog Entry's total_records and
\* last_available_timestamp are the row count and the largest timestamp of
\* its table.
C35_CatalogMatchesTables ==
  Quiescent =>
    \A e \in catalog :
      /\ e.total_records = Cardinality(tables[e.table_name])
      /\ e.last_available_timestamp = MaxTimestamp(tables[e.table_name])

\* C36: the table that createSymbolTable creates has exactly the name that
\* getTableName returns for the same symbol, asset class, timeframe and
\* exchange.
C36_CreatedNameIsTableName ==
  names.called => names.firstName = names.secondName

\* the statistics both rescans report
ReportOf(r) ==
  <<r.total_records, r.first_available_timestamp, r.last_available_timestamp,
    r.coverage_days, r.volume_available, r.day_of_week_distribution,
    r.can_update_from>>

\* the Catalog Entry of a table after refresh_symbol_metadata on rows
RescannedEntry(n, rows) ==
  CHOOSE e \in refresh_symbol_metadata({NewEntry(NoString, n, "tradfi", NoString, 0)},
                                       n, rows, 0) : TRUE

\* C37: on the contents of every table, refresh_symbol_metadata and
\* generateSymbolMetadata report the same total_records, first and last
\* timestamp, coverage_days, volume_available, weekday histogram and
\* can_update_from.
C37_RescansAgree ==
  \A n \in TableNames :
    ReportOf(RescannedEntry(n, tables[n])) = ReportOf(generateSymbolMetadata(tables[n]))

\* the planned symbol has Catalog Entries and none of them has a
\* can_update_from: tables created, nothing ingested
PlannedWithoutResumePoint ==
  /\ plan # NoPlan
  /\ \E e \in catalog : e.symbol = plan.symbol
  /\ \A e \in catalog : e.symbol = plan.symbol => e.can_update_from = Null

\* C38: for a Catalog Entry without can_update_from planIncrementalUpdate
\* yields a full plan.
C38_FullPlanWithoutResumePoint ==
  PlannedWithoutResumePoint => plan.updateType = "full"

\* the metadata a symbol was last written with, over its timeframes
WrittenFor(t) ==
  { c \in metaDir.written :
      /\ c.target.symbol = t.symbol /\ c.target.assetType = t.assetType
      /\ c.target.exchange = t.exchange }

\* C39: once generateSymbolMetadata has written the metadata file of a
\* symbol, getSymbolMetadata for that symbol returns written metadata and
\* checkSymbolNeedsUpdate does not answer no_metadata.
C39_MetadataRoundTrip ==
  (metaDir.check.called /\ WrittenFor(metaDir.check.target) # {}) =>
    /\ metaDir.check.found # {}
    /\ metaDir.check.found \subseteq WrittenFor(metaDir.check.target)
    /\ metaDir.check.answer.reason # "no_metadata"

\* a pass of the loop that got candles and goes on
BatchSucceeded ==
  /\ fetch.state = "loop" /\ fetch'.state = "loop"
  /\ fetch'.retries = 0 /\ fetch'.batchCount >= 1
  /\ fetch' # fetch

\* C40: the fetch loop ends for every behaviour of the exchange: a batch of
\* candles moves currentTime forward, and a batch is asked for again after an
\* exchange error at most maxRetries times.
C40_FetchTerminates ==
  /\ (fetch.state = "loop") ~> (fetch.state \in {"returned", "thrown"})
  /\ [][BatchSucceeded => fetch'.currentTime > fetch.currentTime]_vars
  /\ [](fetch.retries <= fetch.maxRetries)

====
